---------------------------- MODULE Spec2Model ----------------------------
(***************************************************************************)
(* Model of the LE910CX AT-command driver (le910cx_conn.py).               *)
(*                                                                         *)
(* A caller invokes one operation of LE910CXConn at a time.  execute runs  *)
(* statement by statement (ex.pc is its position); every transport         *)
(* operation it performs is appended to log.  The accessors run execute    *)
(* for their read query, decide, and run it again for their write.  The    *)
(* serial transport (SerialConn) and the modem are the environment: what   *)
(* they do with a command is an input of the step that meets it.           *)
(***************************************************************************)
EXTENDS Integers, Sequences, FiniteSets, TLC

\* ------------------------------------------------------------------ bounds

\* Longest ready_words list handed to execute.
MaxReadyWords == 2

\* The six NMEA sentence flags (gga, gll, gsa, gsv, rmc, vtg) are the binary
\* digits of a code, gga the lowest; callers and the modem use the flag
\* vectors with the codes 0..MaxFlagCode.
MaxFlagCode == 1

\* --------------------------------------------------------- program constants

SMS_FORMAT_MODE_PUD == 0
SMS_FORMAT_MODE_TEXT == 1

SMS_FORMAT_MODES == (SMS_FORMAT_MODE_PUD :> "PUD") @@ (SMS_FORMAT_MODE_TEXT :> "TXT")

NMEA_MODE_DISABLED == 0
NMEA_MODE_FIRST_FMT == 1
NMEA_MODE_SECOND_FMT == 2
NMEA_MODE_PORT_LOCK == 3

NMEA_MODE_MAP ==
    (NMEA_MODE_DISABLED :> "disabled") @@ (NMEA_MODE_FIRST_FMT :> "first_format") @@
    (NMEA_MODE_SECOND_FMT :> "second_format") @@ (NMEA_MODE_PORT_LOCK :> "port_lock")

ME_ERROR_MODE_DISABLED == 0
ME_ERROR_MODE_NUMERIC == 1
ME_ERROR_MODE_VERBOSE == 2

ME_ERROR_MODE_MAP ==
    (ME_ERROR_MODE_DISABLED :> "disabled") @@ (ME_ERROR_MODE_NUMERIC :> "numeric") @@
    (ME_ERROR_MODE_VERBOSE :> "verbose")

GNSS_LOCATION_FIX_INVALID_FIX == 0
GNSS_LOCATION_FIX_NO_FIX == 1
GNSS_LOCATION_FIX_2D_FIX == 2
GNSS_LOCATION_FIX_3D_FIX == 3

GNSS_LOCATION_FIX_MAP ==
    (GNSS_LOCATION_FIX_INVALID_FIX :> "invalid_fix") @@ (GNSS_LOCATION_FIX_NO_FIX :> "no_fix") @@
    (GNSS_LOCATION_FIX_2D_FIX :> "2D") @@ (GNSS_LOCATION_FIX_3D_FIX :> "3D")

\* ------------------------------------------------------------ Python values

\* A Python value with its type: None, a str, a bool or an int.
PyNone == [t |-> "none", s |-> "", b |-> FALSE, n |-> 0]
PyStr(x) == [t |-> "str", s |-> x, b |-> FALSE, n |-> 0]
PyBool(x) == [t |-> "bool", s |-> "", b |-> x, n |-> 0]
PyInt(x) == [t |-> "int", s |-> "", b |-> FALSE, n |-> x]

\* dict.values() of a map, and common_util.dict_key_by_value.
Values(map) == {map[k] : k \in DOMAIN map}
dict_key_by_value(map, value) == CHOOSE k \in DOMAIN map : map[k] = value

\* FormatD with every bool written as 1.
FormatD_One(b) == 1

\* "{:d}".format(b) of a bool.
FormatD(b) == IF b THEN 1 ELSE 0

\* Bool with the int() left out: bool of a non-empty text is True.
Bool_OfText(n) == TRUE

\* bool(n) of an int: bool(int(match.group(...)))
Bool(n) == n # 0

\* The decimal digits as text, int(text) and the text of a digit.
Digits == <<"0", "1", "2", "3", "4", "5", "6", "7", "8", "9">>
IntOf(text) == (CHOOSE i \in 1..10 : Digits[i] = text) - 1
TextOf(n) == Digits[n + 1]

\* str.upper() on the mode names callers pass.
Upper(text) ==
    CASE text = "pud" -> "PUD"
      [] text = "txt" -> "TXT"
      [] text = "bogus" -> "BOGUS"
      [] OTHER -> text

\* A text whose characters the program looks at is the sequence of its
\* characters; <<>> stands for None where a text is optional (no pattern
\* group of the program matches the empty text).
IsDigit(c) == \E i \in 1..10 : Digits[i] = c
AllDigits(t) == \A i \in 1..Len(t) : IsDigit(t[i])

\* int(t) of a text of digits.
RECURSIVE IntOfText(_)
IntOfText(t) ==
    IF t = <<>> THEN 0
    ELSE IntOfText(SubSeq(t, 1, Len(t) - 1)) * 10 + IntOf(t[Len(t)])

\* A float is the fraction num / den in lowest terms, den > 0.
RECURSIVE Gcd(_, _)
Gcd(a, b) == IF b = 0 THEN a ELSE Gcd(b, a % b)
Abs(n) == IF n < 0 THEN -n ELSE n
Float(num, den) ==
    LET g == Gcd(Abs(num), den) IN [num |-> num \div g, den |-> den \div g]
RECURSIVE Pow10(_)
Pow10(e) == IF e = 0 THEN 1 ELSE 10 * Pow10(e - 1)

\* float(t) of a text [-]digits[.digits]
FloatOf(t) ==
    LET neg == t[1] = "-"
        u == IF neg THEN Tail(t) ELSE t
        dots == {i \in 1..Len(u) : u[i] = "."}
        d == IF dots = {} THEN Len(u) + 1 ELSE CHOOSE i \in dots : TRUE
        whole == SubSeq(u, 1, d - 1)
        frac == SubSeq(u, d + 1, Len(u))
        m == IntOfText(whole \o frac)
    IN  Float(IF neg THEN -m ELSE m, Pow10(Len(frac)))

\* ------------------------------------------------- commands, data and replies

Cmd(name, args) == [name |-> name, args |-> args]
NoCmd == Cmd("", <<>>)

\* The data of a response: the text before the first field and the fields.
Data(tag, fields) == [tag |-> tag, fields |-> fields]
NoData == Data("", <<>>)

\* The dict read_until returns: "data" when the ready word matched, "error"
\* when the error pattern matched.  NoneRes is Python's None.
NoneRes == [t |-> "none", has_data |-> FALSE, data |-> NoData, has_error |-> FALSE, error |-> ""]
DataRes(d) == [t |-> "dict", has_data |-> TRUE, data |-> d, has_error |-> FALSE, error |-> ""]
EmptyRes == [t |-> "dict", has_data |-> FALSE, data |-> NoData, has_error |-> FALSE, error |-> ""]
ErrorRes(e) == [t |-> "dict", has_data |-> FALSE, data |-> NoData, has_error |-> TRUE, error |-> e]

\* res.get("data", "")
GetData(res) == IF res.has_data THEN res.data ELSE NoData

\* One transport operation of the log.
Event(op, cmd, word, out, data, error) ==
    [op |-> op, cmd |-> cmd, word |-> word, out |-> out, data |-> data, error |-> error]
WriteLineEv(cmd, out) == Event("write_line", cmd, "", out, NoData, "")
ReadUntilEv(word, out, data, error) == Event("read_until", NoCmd, word, out, data, error)
CloseEv == Event("close", NoCmd, "", "ok", NoData, "")
\* match.group(name): a field of the response is read.
GroupEv(name) == Event("group", NoCmd, name, "ok", NoData, "")
SleepEv == Event("sleep", NoCmd, "", "ok", NoData, "")

\* ----------------------------------------------------------------- the modem

\* The flag vector (six 0/1 digits) with a given code.
RECURSIVE Bit(_, _)
Bit(code, i) == IF i = 1 THEN code % 2 ELSE Bit(code \div 2, i - 1)
FlagVector(code) == [i \in 1..6 |-> Bit(code, i)]
FlagVectors == {FlagVector(c) : c \in 0..MaxFlagCode}

\* The fields of a position report ($GPSACP) in the order of the response:
\* utc, lat, lon, hdop, altitude, fix, cog, spkm, spkn, date, nsat_gps,
\* nsat_glonass.  The report of the example in the source, and the report of
\* a receiver without a fix.
AcpFields ==
    <<"utc", "lat", "lon", "hdop", "altitude", "fix", "cog", "spkm", "spkn", "date",
      "nsat_gps", "nsat_glonass">>
FixReport ==
    <<<<"0", "9", "3", "4", "4", "6", ".", "0", "0", "0">>,
      <<"5", "7", "0", "2", ".", "1", "6", "0", "8", "N">>,
      <<"0", "0", "9", "5", "6", ".", "1", "0", "6", "4", "E">>,
      <<"1", ".", "4">>, <<"-", "3", "0", ".", "6">>, <<"3">>, <<"0", ".", "0">>, <<"0", ".", "0">>, <<"0", ".", "0">>,
      <<"1", "4", "0", "6", "2", "2">>, <<"0", "4">>, <<"0", "4">>>>
NoFixReport == [i \in 1..12 |-> IF i = 6 THEN <<"1">> ELSE <<>>]

\* The settings the modem holds, its position report and its stored messages.
Modems ==
    [cmee : DOMAIN ME_ERROR_MODE_MAP, cmgf : DOMAIN SMS_FORMAT_MODES, gpsp : {0, 1},
     nmun_mode : DOMAIN NMEA_MODE_MAP, nmun_flags : FlagVectors,
     acp : {NoFixReport}, inbox : {<<>>}]

\* The modem as shipped.
FactoryModem ==
    [cmee |-> ME_ERROR_MODE_DISABLED, cmgf |-> SMS_FORMAT_MODE_PUD, gpsp |-> 0,
     nmun_mode |-> NMEA_MODE_DISABLED, nmun_flags |-> FlagVector(0),
     acp |-> NoFixReport, inbox |-> <<>>]

\* The data the modem answers a query with.
ModemData(modem, cmd) ==
    CASE cmd.name = "AT+CMEE?" -> Data("+CMEE: ", <<TextOf(modem.cmee)>>)
      [] cmd.name = "AT+CMGF?" -> Data("+CMGF: ", <<TextOf(modem.cmgf)>>)
      [] cmd.name = "AT$GPSP?" -> Data("$GPSP: ", <<TextOf(modem.gpsp)>>)
      [] cmd.name = "AT$GPSNMUN?" ->
            Data("$GPSNMUN: ",
                 <<TextOf(modem.nmun_mode)>> \o [i \in 1..6 |-> TextOf(modem.nmun_flags[i])])
      [] cmd.name = "AT+GSN=1" -> Data("+GSN: ", <<"356938035643809">>)
      [] cmd.name = "AT$GPSACP" -> Data("$GPSACP: ", modem.acp)
      [] cmd.name = "AT+CMGL=" -> Data("+CMGL: ", modem.inbox)
      [] OTHER -> NoData

\* The modem after it carried out a command.
ModemApply(modem, cmd) ==
    CASE cmd.name = "AT+CMEE=" -> [modem EXCEPT !.cmee = cmd.args[1]]
      [] cmd.name = "AT+CMGF=" -> [modem EXCEPT !.cmgf = cmd.args[1]]
      [] cmd.name = "AT$GPSP=" -> [modem EXCEPT !.gpsp = cmd.args[1]]
      [] cmd.name = "AT$GPSNMUN=" ->
            [modem EXCEPT !.nmun_mode = cmd.args[1],
                          !.nmun_flags = [i \in 1..6 |-> cmd.args[i + 1]]]
      [] OTHER -> modem

\* What the modem and the line do with a command that was written:
\*   ready    the command is carried out and answered, then the ready word
\*   garbage  as ready, but the data is not of the documented shape
\*   nodata   as ready, but no data precedes the ready word
\*   error    the modem refuses the command with the bare sentinel ERROR
\*   cme      the modem refuses it with a coded error, +CME ERROR: unknown
\*   silent   nothing arrives before the timeout, the command had no effect
\*   lost     the command is carried out but nothing arrives before the timeout
Behaviours == {"ready", "garbage", "nodata", "error", "cme", "silent", "lost"}
Carried(beh) == beh \in {"ready", "garbage", "nodata", "lost"}

\* SerialConn.write_line and the transport's failure to write.
WriteOutcomes == {"ok", "fail"}

\* SerialConn.read_until(ready_word, error_regex, timeout): the dict it returns,
\* or Timeout raised.  first: this is the first read after the command.
ReadUntil(modem, cmd, beh, first) ==
    CASE beh = "ready" ->
            [exc |-> "", res |-> DataRes(IF first THEN ModemData(modem, cmd) ELSE NoData)]
      [] beh = "garbage" -> [exc |-> "", res |-> DataRes(Data("?", <<"9">>))]
      [] beh = "nodata" -> [exc |-> "", res |-> EmptyRes]
      [] beh = "error" -> [exc |-> "", res |-> ErrorRes("ERROR")]
      [] beh = "cme" -> [exc |-> "", res |-> ErrorRes("+CME ERROR: unknown")]
      [] OTHER -> [exc |-> "Timeout", res |-> NoneRes]

\* ------------------------------------------------------------------- state

VARIABLES
    modem,      \* the settings the modem holds
    isOpen,     \* the serial connection is open
    call,       \* the operation in progress (or ended last) and its arguments
    acc,        \* the position of that operation and the dict it is building
    ex,         \* the execute call in progress: its arguments, position, res
    pre,        \* the modem when the operation began
    log,        \* the transport operations of the operation so far, in order
    result,     \* how the operation ended
    outer,      \* the operation that calls other operations of the class, if any
    peer,       \* a second caller of the accessors on the same transport
    crypto      \* the crypto manager: its handler in progress and its connection

vars == <<modem, isOpen, call, acc, ex, pre, log, result, outer, peer, crypto>>

\* An operation and its arguments (those it does not have keep their defaults).
Call(op, desired, flags, force, ready_words, keep_conn, cooldown_delay, raise_on_error) ==
    [op |-> op, desired |-> desired, flags |-> flags, force |-> force,
     ready_words |-> ready_words, keep_conn |-> keep_conn,
     cooldown_delay |-> cooldown_delay, raise_on_error |-> raise_on_error]
NoFlags == [i \in 1..6 |-> PyBool(FALSE)]
NoCall == Call("", PyNone, NoFlags, FALSE, <<>>, TRUE, PyNone, TRUE)

\* The dict an operation returns: {"mode": ..}, {"status": ..}, the NMEA
\* configuration, or the res of execute.
\* The GNSS location dict; lat and lon are a text (kind "str"), a float or None.
NoCoord == [kind |-> "none", text |-> <<>>, deg |-> Float(0, 1)]
NoLoc ==
    [time_utc |-> <<>>, date_utc |-> <<>>, hdop |-> Float(0, 1), alt |-> Float(0, 1), fix |-> "",
     cog |-> Float(0, 1), sog_km |-> Float(0, 1), sog_kn |-> Float(0, 1), nsat_gps |-> 0,
     nsat_glonass |-> 0, lat |-> NoCoord, lon |-> NoCoord]

NoRet ==
    [t |-> "none", mode |-> "", status |-> FALSE, flags |-> [i \in 1..6 |-> FALSE], res |-> NoneRes,
     value |-> "", loc |-> NoLoc, values |-> <<>>]
EmptyRet == [NoRet EXCEPT !.t = "empty"]
ModeRet(mode) == [NoRet EXCEPT !.t = "mode", !.mode = mode]
StatusRet(status) == [NoRet EXCEPT !.t = "status", !.status = status]
NmeaRet(mode, flags) == [NoRet EXCEPT !.t = "nmea", !.mode = mode, !.flags = flags]
ResRet(res) == [NoRet EXCEPT !.t = "res", !.res = res]
ValueRet(value) == [NoRet EXCEPT !.t = "value", !.value = value]
LocRet(loc) == [NoRet EXCEPT !.t = "loc", !.loc = loc]
ValuesRet(values) == [NoRet EXCEPT !.t = "values", !.values = values]

\* How an operation ended: the exception raised ("" when it returned), the
\* command and error the exception names, the value returned.
Result(exc, exc_cmd, exc_error, ret) ==
    [exc |-> exc, exc_cmd |-> exc_cmd, exc_error |-> exc_error, ret |-> ret]
NoResult == Result("", NoCmd, "", NoRet)

\* The frame of an execute call.  pc: write_line, read_until, finally,
\* cooldown, raise_or_return, returned; none when no call is in progress.
\* i is the index of the ready word awaited.
Frame(pc, cmd, ready_words, keep_conn, cooldown_delay, raise_on_error) ==
    [pc |-> pc, cmd |-> cmd, ready_words |-> ready_words, keep_conn |-> keep_conn,
     cooldown_delay |-> cooldown_delay, raise_on_error |-> raise_on_error,
     i |-> 1, res |-> NoneRes, exc |-> "", exc_cmd |-> NoCmd, exc_error |-> ""]
NoFrame == Frame("none", NoCmd, <<>>, TRUE, PyNone, TRUE)

\* DefaultFrame with raise_on_error defaulting to False.
DefaultFrame_NoRaise(cmd) == Frame("write_line", cmd, <<"OK">>, TRUE, PyNone, FALSE)

\* execute(cmd) with the defaults of its signature.
DefaultFrame(cmd) == Frame("write_line", cmd, <<"OK">>, TRUE, PyNone, TRUE)

\* An operation that calls other operations of the class (sms_list, open):
\* its position, its arguments and its locals.  Its calls run as call, acc
\* and ex; log and pre span the whole of it.
\*   format_mode, prev_format_mode   of sms_list
\*   listing                         how the try block of sms_list ended: the
\*                                   exception in flight in its finally, or ret
\*   settings                        of open/config
\*   target                          the call that set the configuration a
\*                                   caller then reads back
Outer(op, pc, format_mode, settings) ==
    [op |-> op, pc |-> pc, format_mode |-> format_mode, prev_format_mode |-> "",
     listing |-> NoResult, settings |-> settings, target |-> NoCall]
NoSettings == [perform_initial_nmea_escape |-> FALSE, error_config |-> PyNone,
               has_error_config |-> FALSE, gnss_session |-> PyNone, has_gnss_session |-> FALSE]
NoOuter == Outer("", "", PyNone, NoSettings)

\* The key ids and the public keys of the secure element; NoKey is None.
KeyIds == {"3dc586a1", "reserved"}
NoKey == "none"
Keys == {NoKey, "key_a", "key_b"}
FreshKey(key) == IF key = "key_a" THEN "key_b" ELSE "key_a"

\* The dict query_handler and generate_key_handler return.
HandlerRet(type, error, value) == [type |-> type, error |-> error, value |-> value]
NoHandlerRet == HandlerRet("", "", NoKey)

\* The crypto manager and its connection: the handler in progress, its
\* position, arguments and locals, whether the connection scope is entered,
\* and the keys the secure element holds.
Crypto(keys) ==
    [pc |-> "idle", handler |-> "", cmd |-> "", keyid |-> "", force |-> FALSE,
     existing_key |-> NoKey, key_string |-> NoKey, exc |-> "", ret |-> NoHandlerRet,
     entered |-> FALSE, keys |-> keys]
NoCrypto == Crypto([k \in KeyIds |-> NoKey])

\* The second caller: whether the callers share one exclusive lock per
\* transport, its position (idle, read, write, done), its accessor call and
\* what that call does after its read.
Peer(locking, pc, c, plan) == [locking |-> locking, pc |-> pc, call |-> c, plan |-> plan]
NoPlan == [kind |-> "return", exc |-> "", ret |-> NoRet, cmd |-> NoCmd, ready_words |-> <<>>]
NoPeer == Peer(FALSE, "idle", NoCall, NoPlan)

\* The position of the operation: idle, exec (a caller's own execute), read
\* and write (an accessor's two execute calls), done.
Acc(pc, ret) == [pc |-> pc, ret |-> ret]

Idle ==
    /\ call = NoCall
    /\ acc = Acc("idle", NoRet)
    /\ ex = NoFrame
    /\ pre = modem
    /\ log = <<>>
    /\ result = NoResult
    /\ outer = NoOuter
    /\ peer = NoPeer
    /\ crypto = NoCrypto

\* ------------------------------------------------------------------- execute

\* self.write_line(cmd)
ExWriteLine ==
    /\ ex.pc = "write_line"
    /\ \E wr \in WriteOutcomes :
          /\ log' = Append(log, WriteLineEv(ex.cmd, wr))
          /\ ex' = IF wr = "fail"
                   THEN [ex EXCEPT !.pc = "finally", !.exc = "WriteError"]
                   ELSE [ex EXCEPT !.pc = IF Len(ex.ready_words) = 0 THEN "finally"
                                          ELSE "read_until"]
    /\ UNCHANGED <<modem, isOpen, call, acc, pre, result, outer, peer, crypto>>

\* StopsScan with the break left out.
StopsScan_NoBreak(res) == FALSE

\* if "error" in res: break
StopsScan(res) == res.has_error

\* for ready_word in ready_words: res = self.read_until(ready_word, error_regex,
\* timeout=timeout), one iteration.  The modem meets the command at the first.
ExReadUntil ==
    /\ ex.pc = "read_until"
    /\ \E beh \in Behaviours :
          LET after == IF ex.i = 1 /\ Carried(beh) THEN ModemApply(modem, ex.cmd) ELSE modem
              r == ReadUntil(after, ex.cmd, beh, ex.i = 1)
              out == IF r.exc # "" THEN "timeout"
                     ELSE IF r.res.has_error THEN "error" ELSE "ready"
          IN  /\ modem' = after
              /\ log' = Append(log, ReadUntilEv(ex.ready_words[ex.i], out, GetData(r.res),
                                                r.res.error))
              /\ ex' = IF r.exc # ""
                       THEN [ex EXCEPT !.pc = "finally", !.exc = r.exc]
                       ELSE IF StopsScan(r.res) \/ ex.i = Len(ex.ready_words)
                            THEN [ex EXCEPT !.pc = "finally", !.res = r.res]
                            ELSE [ex EXCEPT !.i = @ + 1, !.res = r.res]
    /\ UNCHANGED <<isOpen, call, acc, pre, result, outer, peer, crypto>>

\* ClosesConn with the close after the try block instead of in its finally.
ClosesConn_AfterTry(keep_conn, exc) == ~keep_conn /\ exc = ""

\* finally: if not keep_conn: self.close().  exc is the exception in flight.
ClosesConn(keep_conn, exc) == ~keep_conn

ExFinally ==
    /\ ex.pc = "finally"
    /\ IF ClosesConn(ex.keep_conn, ex.exc)
       THEN log' = Append(log, CloseEv) /\ isOpen' = FALSE
       ELSE UNCHANGED <<log, isOpen>>
    /\ ex' = [ex EXCEPT !.pc = IF ex.exc # "" THEN "returned" ELSE "cooldown"]
    /\ UNCHANGED <<modem, call, acc, pre, result, outer, peer, crypto>>

\* if cooldown_delay != None: time.sleep(cooldown_delay)
Sleeps(cooldown_delay) == cooldown_delay # PyNone

ExCooldown ==
    /\ ex.pc = "cooldown"
    /\ log' = IF Sleeps(ex.cooldown_delay) THEN Append(log, SleepEv) ELSE log
    /\ ex' = [ex EXCEPT !.pc = "raise_or_return"]
    /\ UNCHANGED <<modem, isOpen, call, acc, pre, result, outer, peer, crypto>>

\* RaisesOnError with raise_on_error ignored.
RaisesOnError_Always(raise_on_error, res) == res.has_error

\* if raise_on_error and "error" in res
RaisesOnError(raise_on_error, res) == raise_on_error /\ res.has_error

\* ExRaiseOrReturn with the command sent again after an error.
ExRaiseOrReturn_Retry ==
    /\ ex.pc = "raise_or_return"
    /\ ex' = IF ex.res.has_error THEN [ex EXCEPT !.pc = "write_line", !.i = 1]
             ELSE [ex EXCEPT !.pc = "returned"]
    /\ UNCHANGED <<modem, isOpen, call, acc, pre, log, result, outer, peer, crypto>>

\* if raise_on_error and "error" in res: raise CommandExecutionException(
\* "Command {} returned error {}".format(cmd, res["error"])); return res.
\* "error" in None raises TypeError.
ExRaiseOrReturn ==
    /\ ex.pc = "raise_or_return"
    /\ ex' = IF ex.raise_on_error /\ ex.res.t = "none"
             THEN [ex EXCEPT !.pc = "returned", !.exc = "TypeError"]
             ELSE IF RaisesOnError(ex.raise_on_error, ex.res)
                  THEN [ex EXCEPT !.pc = "returned", !.exc = "CommandExecutionException",
                                  !.exc_cmd = ex.cmd, !.exc_error = ex.res.error]
                  ELSE [ex EXCEPT !.pc = "returned"]
    /\ UNCHANGED <<modem, isOpen, call, acc, pre, log, result, outer, peer, crypto>>

\* The ready_words lists of at most MaxReadyWords words.
ReadyWords == {"OK", "CONNECT"}
ReadyWordLists == UNION {[1..n -> ReadyWords] : n \in 0..MaxReadyWords}

\* A caller calls execute with a command of its own.
CallExecute ==
    /\ acc.pc = "idle" /\ isOpen
    /\ \E ready_words \in ReadyWordLists, keep_conn \in BOOLEAN,
          cooldown_delay \in {PyNone, PyInt(0), PyInt(1)}, raise_on_error \in BOOLEAN :
          /\ call' = Call("execute", PyNone, NoFlags, FALSE, ready_words, keep_conn,
                          cooldown_delay, raise_on_error)
          /\ ex' = Frame("write_line", Cmd("AT", <<>>), ready_words, keep_conn,
                         cooldown_delay, raise_on_error)
    /\ acc' = Acc("exec", NoRet)
    /\ pre' = modem
    /\ UNCHANGED <<modem, isOpen, log, result, outer, peer, crypto>>

\* That execute call ends: it raised ex.exc or returned ex.res.
ExecuteEnds ==
    /\ acc.pc = "exec" /\ ex.pc = "returned"
    /\ result' = Result(ex.exc, ex.exc_cmd, ex.exc_error,
                        IF ex.exc = "" THEN ResRet(ex.res) ELSE NoRet)
    /\ acc' = Acc("done", NoRet)
    /\ ex' = NoFrame
    /\ UNCHANGED <<modem, isOpen, call, pre, log, outer, peer, crypto>>

\* The caller takes the result; the next operation may begin.
Return ==
    /\ acc.pc = "done" /\ outer.pc \in {"", "done"}
    /\ outer' = NoOuter
    /\ call' = NoCall
    /\ acc' = Acc("idle", NoRet)
    /\ pre' = modem
    /\ log' = <<>>
    /\ result' = NoResult
    /\ UNCHANGED <<modem, isOpen, ex, peer, crypto>>

\* ----------------------------------------------------------------- accessors

\* What an accessor does once its read query is back: raise exc, return ret,
\* or write cmd (awaiting ready_words) and then return ret.
RaisePlan(exc) == [kind |-> "raise", exc |-> exc, ret |-> NoRet, cmd |-> NoCmd, ready_words |-> <<>>]
ReturnPlan(ret) == [kind |-> "return", exc |-> "", ret |-> ret, cmd |-> NoCmd, ready_words |-> <<>>]
WritePlan(cmd, ready_words, ret) ==
    [kind |-> "write", exc |-> "", ret |-> ret, cmd |-> cmd, ready_words |-> ready_words]

\* re.match of a response pattern: the literal text, then one field per
\* character class (the set of texts the class admits).
Matches(data, tag, classes) ==
    /\ data.tag = tag
    /\ Len(data.fields) >= Len(classes)
    /\ \A i \in 1..Len(classes) : data.fields[i] \in classes[i]

\* error_config_writes with == for !=.
error_config_writes_Equal(cur, mode, force) == cur = mode \/ force

\* if ret["mode"] != mode or force
error_config_writes(cur, mode, force) == cur # mode \/ force

\* LE910CXConn.error_config after res = self.execute("AT+CMEE?")
error_config(res, mode, force) ==
    LET data == GetData(res)
    IN  IF ~Matches(data, "+CMEE: ", <<{"0", "1", "2"}>>)
        THEN RaisePlan("InvalidResponseException")
        ELSE LET cur == ME_ERROR_MODE_MAP[IntOf(data.fields[1])]
             IN  IF mode = PyNone THEN ReturnPlan(ModeRet(cur))
                 ELSE IF mode.t # "str" \/ mode.s \notin Values(ME_ERROR_MODE_MAP)
                      THEN RaisePlan("ValueError")
                 ELSE IF error_config_writes(cur, mode.s, force)
                      THEN WritePlan(Cmd("AT+CMEE=", <<dict_key_by_value(ME_ERROR_MODE_MAP, mode.s)>>),
                                     <<"OK">>, ModeRet(mode.s))
                      ELSE ReturnPlan(ModeRet(cur))

\* sms_format_reads with the query made whatever force is.
sms_format_reads_Always(force) == TRUE

\* if not force: res = self.execute("AT+CMGF?")
sms_format_reads(force) == ~force

\* if force or mode != ret["mode"]
sms_format_writes(force, mode, ret) == force \/ mode # ret.mode

\* LE910CXConn.sms_format from its first statement; res is the answer to
\* "AT+CMGF?" when the query was made.  A failed match is None, and
\* None.group raises AttributeError, as mode.upper() does when mode is no str.
sms_format(res, mode, force) ==
    LET data == GetData(res)
    IN  IF sms_format_reads(force) /\ ~Matches(data, "+CMGF: ", <<{"0", "1"}>>)
        THEN RaisePlan("AttributeError")
        ELSE IF ~sms_format_reads(force) /\ mode = PyNone THEN RaisePlan("ValueError")
        ELSE LET ret == IF sms_format_reads(force)
                        THEN ModeRet(SMS_FORMAT_MODES[IntOf(data.fields[1])])
                        ELSE EmptyRet
             IN  IF mode = PyNone THEN ReturnPlan(ret)
                 ELSE IF mode.t # "str" THEN RaisePlan("AttributeError")
                 ELSE IF Upper(mode.s) \notin Values(SMS_FORMAT_MODES)
                      THEN RaisePlan("ValueError")
                 ELSE IF sms_format_writes(force, Upper(mode.s), ret)
                      THEN WritePlan(Cmd("AT+CMGF=",
                                         <<dict_key_by_value(SMS_FORMAT_MODES, Upper(mode.s))>>),
                                     <<"OK">>, ModeRet(Upper(mode.s)))
                      ELSE ReturnPlan(ret)

\* gnss_session_writes with force ignored.
gnss_session_writes_NoForce(cur, status, force) == status # cur

\* if status != ret["status"] or force
gnss_session_writes(cur, status, force) == status # cur \/ force

\* LE910CXConn.gnss_session after res = self.execute("AT$GPSP?")
gnss_session(res, status, force) ==
    LET data == GetData(res)
    IN  IF ~Matches(data, "$GPSP: ", <<{"0", "1"}>>)
        THEN RaisePlan("InvalidResponseException")
        ELSE LET cur == Bool(IntOf(data.fields[1]))
             IN  IF status = PyNone THEN ReturnPlan(StatusRet(cur))
                 ELSE IF status.t # "bool" THEN RaisePlan("TypeError")
                 ELSE IF gnss_session_writes(cur, status.b, force)
                      THEN WritePlan(Cmd("AT$GPSP=", <<FormatD(status.b)>>), <<"OK">>,
                                     StatusRet(status.b))
                      ELSE ReturnPlan(StatusRet(cur))

\* if ret["mode"] != mode or ret["gga"] != gga or ... or ret["vtg"] != vtg or force
gnss_nmea_data_config_writes(cur_mode, cur_flags, mode, flags, force) ==
    \/ cur_mode # mode
    \/ cur_flags[1] # flags[1]
    \/ cur_flags[2] # flags[2]
    \/ cur_flags[3] # flags[3]
    \/ cur_flags[4] # flags[4]
    \/ cur_flags[5] # flags[5]
    \/ cur_flags[6] # flags[6]
    \/ force

\* gnss_nmea_data_config_ready_words without the port_lock case.
gnss_nmea_data_config_ready_words_Default(mode_val) == <<"OK">>

\* if mode_val == NMEA_MODE_PORT_LOCK: ready_words=["CONNECT"], else the default
gnss_nmea_data_config_ready_words(mode_val) ==
    IF mode_val = NMEA_MODE_PORT_LOCK THEN <<"CONNECT">> ELSE <<"OK">>

\* LE910CXConn.gnss_nmea_data_config after res = self.execute("AT$GPSNMUN?");
\* flags are gga, gll, gsa, gsv, rmc, vtg.
gnss_nmea_data_config(res, mode, flags, force) ==
    LET data == GetData(res)
        bit == {"0", "1"}
    IN  IF ~Matches(data, "$GPSNMUN: ", <<{"0", "1", "2", "3"}, bit, bit, bit, bit, bit, bit>>)
        THEN RaisePlan("InvalidResponseException")
        ELSE LET cur_mode == NMEA_MODE_MAP[IntOf(data.fields[1])]
                 cur_flags == [i \in 1..6 |-> Bool(IntOf(data.fields[i + 1]))]
             IN  IF mode = PyNone THEN ReturnPlan(NmeaRet(cur_mode, cur_flags))
                 ELSE IF mode.t # "str" \/ mode.s \notin Values(NMEA_MODE_MAP)
                      THEN RaisePlan("ValueError")
                 ELSE IF \E i \in 1..6 : flags[i].t # "bool" THEN RaisePlan("ValueError")
                 ELSE LET want == [i \in 1..6 |-> flags[i].b]
                          mode_val == dict_key_by_value(NMEA_MODE_MAP, mode.s)
                      IN  IF gnss_nmea_data_config_writes(cur_mode, cur_flags, mode.s, want, force)
                          THEN WritePlan(Cmd("AT$GPSNMUN=",
                                             <<mode_val>> \o [i \in 1..6 |-> FormatD(want[i])]),
                                         gnss_nmea_data_config_ready_words(mode_val),
                                         NmeaRet(mode.s, want))
                          ELSE ReturnPlan(NmeaRet(cur_mode, cur_flags))

\* The arguments callers pass: None, the values of the setting, and values
\* outside its domain (an unknown name, a value of the wrong type).
ErrorModeArgs ==
    {PyNone, PyStr("bogus"), PyInt(1)} \cup {PyStr(m) : m \in Values(ME_ERROR_MODE_MAP)}
SmsModeArgs == {PyNone, PyStr("PUD"), PyStr("TXT"), PyStr("txt"), PyStr("bogus"), PyInt(1)}
StatusArgs == {PyNone, PyBool(TRUE), PyBool(FALSE), PyInt(1)}
NmeaModeArgs ==
    {PyNone, PyStr("bogus"), PyInt(1)} \cup {PyStr(m) : m \in Values(NMEA_MODE_MAP)}
NmeaFlagArgs ==
    {[i \in 1..6 |-> PyBool(v[i] = 1)] : v \in FlagVectors}
        \cup {[i \in 1..6 |-> IF i = 1 THEN PyInt(1) ELSE PyBool(FALSE)]}

Accessors == {"error_config", "sms_format", "gnss_session", "gnss_nmea_data_config"}

\* The query and the write command name of each accessor.
QueryOf(op) ==
    CASE op = "error_config" -> Cmd("AT+CMEE?", <<>>)
      [] op = "sms_format" -> Cmd("AT+CMGF?", <<>>)
      [] op = "gnss_session" -> Cmd("AT$GPSP?", <<>>)
      [] op = "gnss_nmea_data_config" -> Cmd("AT$GPSNMUN?", <<>>)

\* The accessor goes on as its plan says.
Follow(plan) ==
    CASE plan.kind = "raise" ->
            /\ result' = Result(plan.exc, NoCmd, "", NoRet)
            /\ acc' = Acc("done", NoRet)
            /\ ex' = NoFrame
      [] plan.kind = "return" ->
            /\ result' = Result("", NoCmd, "", plan.ret)
            /\ acc' = Acc("done", NoRet)
            /\ ex' = NoFrame
      [] plan.kind = "write" ->
            /\ result' = result
            /\ acc' = Acc("write", plan.ret)
            /\ ex' = [DefaultFrame(plan.cmd) EXCEPT !.ready_words = plan.ready_words]

\* The plan of the accessor in progress, given the answer to its query.
PlanOf(c, res) ==
    CASE c.op = "error_config" -> error_config(res, c.desired, c.force)
      [] c.op = "sms_format" -> sms_format(res, c.desired, c.force)
      [] c.op = "gnss_session" -> gnss_session(res, c.desired, c.force)
      [] c.op = "gnss_nmea_data_config" ->
            gnss_nmea_data_config(res, c.desired, c.flags, c.force)

\* error_config(mode, force) is called: res = self.execute("AT+CMEE?")
CallErrorConfig ==
    /\ acc.pc = "idle" /\ isOpen
    /\ \E mode \in ErrorModeArgs, force \in BOOLEAN :
          call' = Call("error_config", mode, NoFlags, force, <<>>, TRUE, PyNone, TRUE)
    /\ acc' = Acc("read", NoRet)
    /\ ex' = DefaultFrame(QueryOf("error_config"))
    /\ pre' = modem
    /\ UNCHANGED <<modem, isOpen, log, result, outer, peer, crypto>>

\* sms_format(mode, force) is called: the query is made only without force.
CallSmsFormat ==
    /\ acc.pc = "idle" /\ isOpen
    /\ \E mode \in SmsModeArgs, force \in BOOLEAN :
          /\ call' = Call("sms_format", mode, NoFlags, force, <<>>, TRUE, PyNone, TRUE)
          /\ IF sms_format_reads(force)
             THEN /\ acc' = Acc("read", NoRet)
                  /\ ex' = DefaultFrame(QueryOf("sms_format"))
                  /\ result' = result
             ELSE Follow(sms_format(NoneRes, mode, force))
    /\ pre' = modem
    /\ UNCHANGED <<modem, isOpen, log, outer, peer, crypto>>

\* gnss_session(status, force) is called: res = self.execute("AT$GPSP?")
CallGnssSession ==
    /\ acc.pc = "idle" /\ isOpen
    /\ \E status \in StatusArgs, force \in BOOLEAN :
          call' = Call("gnss_session", status, NoFlags, force, <<>>, TRUE, PyNone, TRUE)
    /\ acc' = Acc("read", NoRet)
    /\ ex' = DefaultFrame(QueryOf("gnss_session"))
    /\ pre' = modem
    /\ UNCHANGED <<modem, isOpen, log, result, outer, peer, crypto>>

\* gnss_nmea_data_config(mode, gga, .., vtg, force) is called:
\* res = self.execute("AT$GPSNMUN?")
CallGnssNmeaDataConfig ==
    /\ acc.pc = "idle" /\ isOpen
    /\ \E mode \in NmeaModeArgs, flags \in NmeaFlagArgs, force \in BOOLEAN :
          call' = Call("gnss_nmea_data_config", mode, flags, force, <<>>, TRUE, PyNone, TRUE)
    /\ acc' = Acc("read", NoRet)
    /\ ex' = DefaultFrame(QueryOf("gnss_nmea_data_config"))
    /\ pre' = modem
    /\ UNCHANGED <<modem, isOpen, log, result, outer, peer, crypto>>

\* The query's execute call ended: its exception goes to the caller, its
\* res to the accessor's statements after it.
AccessorAfterRead ==
    /\ acc.pc = "read" /\ ex.pc = "returned"
    /\ call.op \in Accessors
    /\ IF ex.exc # ""
       THEN /\ result' = Result(ex.exc, ex.exc_cmd, ex.exc_error, NoRet)
            /\ acc' = Acc("done", NoRet)
            /\ ex' = NoFrame
       ELSE Follow(PlanOf(call, ex.res))
    /\ UNCHANGED <<modem, isOpen, call, pre, log, outer, peer, crypto>>

\* The write's execute call ended: its exception goes to the caller, else
\* the accessor returns the dict it built.
AccessorAfterWrite ==
    /\ acc.pc = "write" /\ ex.pc = "returned"
    /\ result' = IF ex.exc # "" THEN Result(ex.exc, ex.exc_cmd, ex.exc_error, NoRet)
                 ELSE Result("", NoCmd, "", acc.ret)
    /\ acc' = Acc("done", NoRet)
    /\ ex' = NoFrame
    /\ UNCHANGED <<modem, isOpen, call, pre, log, outer, peer, crypto>>

\* ------------------------------------------------------------------ decoders

\* What a decoder does once its query is back: raise exc or return ret, after
\* reading the groups named, in that order.
DecodePlan(exc, ret, groups) == [exc |-> exc, ret |-> ret, groups |-> groups]

\* LE910CXConn.imei after res = self.execute("AT+GSN=1"): a failed match is
\* None, and None.groupdict raises AttributeError.
imei(res) ==
    LET data == GetData(res)
    IN  IF ~Matches(data, "+GSN: ", <<{"356938035643809"}>>)
        THEN DecodePlan("AttributeError", NoRet, <<>>)
        ELSE DecodePlan("", ValueRet(data.fields[1]), <<>>)

\* The patterns of the fields of res_regex, each on the whole text of a field.
\*   [0-9]+\.?[0-9]*
ReNumber(t) ==
    \E k \in 1..Len(t) :
        /\ AllDigits(SubSeq(t, 1, k))
        /\ \/ k = Len(t)
           \/ t[k + 1] = "." /\ AllDigits(SubSeq(t, k + 2, Len(t)))
\*   [0-9]+\.[0-9]+
ReDecimal(t) ==
    \E k \in 2..(Len(t) - 1) :
        t[k] = "." /\ AllDigits(SubSeq(t, 1, k - 1)) /\ AllDigits(SubSeq(t, k + 1, Len(t)))
ReField(name, t) ==
    CASE name = "utc" ->
            Len(t) = 10 /\ AllDigits(SubSeq(t, 1, 6)) /\ t[7] = "." /\ AllDigits(SubSeq(t, 8, 10))
      [] name = "lat" ->
            /\ Len(t) = 10 /\ AllDigits(SubSeq(t, 1, 4)) /\ t[5] = "."
            /\ AllDigits(SubSeq(t, 6, 9)) /\ t[10] \in {"N", "S"}
      [] name = "lon" ->
            /\ Len(t) = 11 /\ AllDigits(SubSeq(t, 1, 5)) /\ t[6] = "."
            /\ AllDigits(SubSeq(t, 7, 10)) /\ t[11] \in {"W", "E"}
      [] name = "hdop" -> ReNumber(t)
      [] name = "altitude" -> Len(t) >= 1 /\ ReNumber(IF t[1] = "-" THEN Tail(t) ELSE t)
      [] name = "fix" -> Len(t) = 1 /\ t[1] \in {"0", "1", "2", "3"}
      [] name \in {"cog", "spkm", "spkn"} -> ReDecimal(t)
      [] name = "date" -> Len(t) = 6 /\ AllDigits(t)
      [] name \in {"nsat_gps", "nsat_glonass"} -> Len(t) = 2 /\ AllDigits(t)

\* res_regex.match(data): every field but fix may be empty; the pattern is
\* not anchored at its end, so the last field need not match as a whole.
GpsAcpMatch(data) ==
    /\ data.tag = "$GPSACP: "
    /\ Len(data.fields) = 12
    /\ ReField("fix", data.fields[6])
    /\ \A i \in (1..11) \ {6} : data.fields[i] = <<>> \/ ReField(AcpFields[i], data.fields[i])

\* match.group(name): None (<<>>) for a group that took no part in the match.
Group(data, name) ==
    LET i == CHOOSE k \in 1..12 : AcpFields[k] = name
        f == data.fields[i]
    IN  IF i < 12 THEN f
        ELSE IF Len(f) >= 2 /\ AllDigits(SubSeq(f, 1, 2)) THEN SubSeq(f, 1, 2) ELSE <<>>

\* gnss_location_stops with the fix looked at after the fields are parsed.
gnss_location_stops_Late(fix) == FALSE

\* if int(match.group("fix")) in [GNSS_LOCATION_FIX_INVALID_FIX, GNSS_LOCATION_FIX_NO_FIX]
gnss_location_stops(fix) ==
    IntOfText(fix) \in {GNSS_LOCATION_FIX_INVALID_FIX, GNSS_LOCATION_FIX_NO_FIX}

\* DecimalDegrees with the southern and western hemispheres negative.
DecimalDegrees_Signed(t, n) ==
    LET deg == FloatOf(SubSeq(t, 1, n))
        min == FloatOf(SubSeq(t, n + 1, Len(t) - 1))
        sign == IF t[Len(t)] \in {"S", "W"} THEN -1 ELSE 1
    IN  Float(sign * (deg.num * min.den * 60 + min.num * deg.den), deg.den * min.den * 60)

\* lat_deg + (lat_min/60) with lat_deg = float(lat[:n]), lat_min = float(lat[n:-1])
DecimalDegrees(t, n) ==
    LET deg == FloatOf(SubSeq(t, 1, n))
        min == FloatOf(SubSeq(t, n + 1, Len(t) - 1))
    IN  Float(deg.num * min.den * 60 + min.num * deg.den, deg.den * min.den * 60)

\* The groups the dict of gnss_location is built from after utc and date,
\* in the order of its entries; each is converted with float() or int(),
\* which raise TypeError on None, as the slices of time_utc and date_utc do.
ParseOrder ==
    <<"hdop", "altitude", "fix", "cog", "spkm", "spkn", "nsat_gps", "nsat_glonass">>

\* LE910CXConn.gnss_location after res = self.execute("AT$GPSACP")
gnss_location(res, decimal_degrees) ==
    LET data == GetData(res)
        g(name) == Group(data, name)
        missing == {i \in 1..Len(ParseOrder) : g(ParseOrder[i]) = <<>>}
        stop == CHOOSE i \in missing : \A j \in missing : i <= j
        utc == g("utc")
        date == g("date")
        loc == [NoLoc EXCEPT
                  !.time_utc = SubSeq(utc, 1, 2) \o <<":">> \o SubSeq(utc, 3, 4) \o <<":">>
                                   \o SubSeq(utc, 5, 6),
                  !.date_utc = <<"2", "0">> \o SubSeq(date, 5, 6) \o <<"-">> \o SubSeq(date, 3, 4)
                                   \o <<"-">> \o SubSeq(date, 1, 2),
                  !.hdop = FloatOf(g("hdop")),
                  !.alt = FloatOf(g("altitude")),
                  !.fix = GNSS_LOCATION_FIX_MAP[IntOfText(g("fix"))],
                  !.cog = FloatOf(g("cog")),
                  !.sog_km = FloatOf(g("spkm")),
                  !.sog_kn = FloatOf(g("spkn")),
                  !.nsat_gps = IntOfText(g("nsat_gps")),
                  !.nsat_glonass = IntOfText(g("nsat_glonass"))]
        text(t) == IF t = <<>> THEN NoCoord ELSE [NoCoord EXCEPT !.kind = "str", !.text = t]
        float(t, n) == [NoCoord EXCEPT !.kind = "float", !.deg = DecimalDegrees(t, n)]
    IN  IF ~GpsAcpMatch(data) THEN DecodePlan("InvalidResponseException", NoRet, <<>>)
        ELSE IF gnss_location_stops(g("fix")) THEN DecodePlan("NoFixException", NoRet, <<"fix">>)
        ELSE IF utc = <<>> \/ date = <<>>
             THEN DecodePlan("TypeError", NoRet, <<"fix", "utc", "date">>)
        ELSE IF missing # {}
             THEN DecodePlan("TypeError", NoRet,
                             <<"fix", "utc", "date">> \o SubSeq(ParseOrder, 1, stop))
        ELSE IF decimal_degrees /\ g("lat") = <<>>
             THEN DecodePlan("TypeError", NoRet, <<"fix", "utc", "date">> \o ParseOrder \o <<"lat">>)
        ELSE IF decimal_degrees /\ g("lon") = <<>>
             THEN DecodePlan("TypeError", NoRet,
                             <<"fix", "utc", "date">> \o ParseOrder \o <<"lat", "lon">>)
        ELSE DecodePlan("",
                        LocRet([loc EXCEPT
                                  !.lat = IF decimal_degrees THEN float(g("lat"), 2)
                                          ELSE text(g("lat")),
                                  !.lon = IF decimal_degrees THEN float(g("lon"), 3)
                                          ELSE text(g("lon"))]),
                        <<"fix", "utc", "date">> \o ParseOrder \o <<"lat", "lon">>)

\* imei() is called: res = self.execute("AT+GSN=1")
CallImei ==
    /\ acc.pc = "idle" /\ isOpen
    /\ call' = Call("imei", PyNone, NoFlags, FALSE, <<>>, TRUE, PyNone, TRUE)
    /\ acc' = Acc("read", NoRet)
    /\ ex' = DefaultFrame(Cmd("AT+GSN=1", <<>>))
    /\ pre' = modem
    /\ UNCHANGED <<modem, isOpen, log, result, outer, peer, crypto>>

\* gnss_location(decimal_degrees) is called: res = self.execute("AT$GPSACP")
CallGnssLocation ==
    /\ acc.pc = "idle" /\ isOpen
    /\ \E decimal_degrees \in BOOLEAN :
          call' = Call("gnss_location", PyBool(decimal_degrees), NoFlags, FALSE, <<>>, TRUE,
                       PyNone, TRUE)
    /\ acc' = Acc("read", NoRet)
    /\ ex' = DefaultFrame(Cmd("AT$GPSACP", <<>>))
    /\ pre' = modem
    /\ UNCHANGED <<modem, isOpen, log, result, outer, peer, crypto>>

\* The decoder's execute call ended: its exception goes to the caller, its
\* res is matched and decoded.
DecoderAfterRead ==
    /\ acc.pc = "read" /\ ex.pc = "returned"
    /\ call.op \in {"imei", "gnss_location"}
    /\ IF ex.exc # ""
       THEN /\ result' = Result(ex.exc, ex.exc_cmd, ex.exc_error, NoRet)
            /\ log' = log
       ELSE LET plan == IF call.op = "imei" THEN imei(ex.res)
                        ELSE gnss_location(ex.res, call.desired.b)
            IN  /\ result' = Result(plan.exc, NoCmd, "", plan.ret)
                /\ log' = log \o [i \in 1..Len(plan.groups) |-> GroupEv(plan.groups[i])]
    /\ acc' = Acc("done", NoRet)
    /\ ex' = NoFrame
    /\ UNCHANGED <<modem, isOpen, call, pre, outer, peer, crypto>>

\* ------------------------------------------------------------------ sms_list

\* A line of the answer to AT+CMGL.  A meta line is +CMGL: and the fields
\* index, status, sender, a name, date, time, comma separated (fields is
\* what split(",") finds); a data line is the text of the message.
Line(kind, fields, index, status, sender, date, time, text) ==
    [kind |-> kind, fields |-> fields, index |-> index, status |-> status, sender |-> sender,
     date |-> date, time |-> time, text |-> text]
MetaLine(index, date, time) == Line("meta", 6, index, "REC READ", "+4520000000", date, time, "")
DataLine(text) == Line("data", 1, <<>>, "", "", <<>>, <<>>, text)

\* n as a text of width digits, zero filled.
RECURSIVE Padded(_, _)
Padded(n, width) ==
    IF width = 0 THEN <<>> ELSE Padded(n \div 10, width - 1) \o <<Digits[(n % 10) + 1]>>

\* A datetime is the number of seconds since 1970-01-01T00:00:00; the days
\* of a civil date, and the civil date of a number of days.
DaysFromCivil(year, month, day) ==
    LET y == IF month <= 2 THEN year - 1 ELSE year
        era == y \div 400
        yoe == y - era * 400
        doy == (153 * (IF month > 2 THEN month - 3 ELSE month + 9) + 2) \div 5 + day - 1
        doe == yoe * 365 + yoe \div 4 - yoe \div 100 + doy
    IN  era * 146097 + doe - 719468
CivilFromDays(days) ==
    LET z == days + 719468
        era == z \div 146097
        doe == z - era * 146097
        yoe == (doe - doe \div 1460 + doe \div 36524 - doe \div 146096) \div 365
        doy == doe - (365 * yoe + yoe \div 4 - yoe \div 100)
        mp == (5 * doy + 2) \div 153
        day == doy - (153 * mp + 2) \div 5 + 1
        month == IF mp < 10 THEN mp + 3 ELSE mp - 9
        year == yoe + era * 400 + (IF month <= 2 THEN 1 ELSE 0)
    IN  [year |-> year, month |-> month, day |-> day]
DaysInMonth(year, month) ==
    IF month = 12 THEN 31
    ELSE DaysFromCivil(year, month + 1, 1) - DaysFromCivil(year, month, 1)

\* Two digits, a separator, two digits, the separator, two digits.
Triple(t, sep) ==
    /\ Len(t) = 8 /\ t[3] = sep /\ t[6] = sep
    /\ AllDigits(SubSeq(t, 1, 2)) /\ AllDigits(SubSeq(t, 4, 5)) /\ AllDigits(SubSeq(t, 7, 8))

\* datetime.datetime.strptime("{}T{}".format(date, time), "%y/%m/%dT%H:%M:%S"):
\* the seconds of the datetime, or -1 where strptime raises ValueError.
\* %y is a year of 2000..2068 up to 68 and of 1969..1999 from 69.
Strptime(date, time) ==
    IF ~(Triple(date, "/") /\ Triple(time, ":")) THEN -1
    ELSE LET yy == IntOfText(SubSeq(date, 1, 2))
             year == IF yy <= 68 THEN 2000 + yy ELSE 1900 + yy
             month == IntOfText(SubSeq(date, 4, 5))
             day == IntOfText(SubSeq(date, 7, 8))
             hour == IntOfText(SubSeq(time, 1, 2))
             minute == IntOfText(SubSeq(time, 4, 5))
             second == IntOfText(SubSeq(time, 7, 8))
         IN  IF month \in 1..12 /\ day >= 1 /\ hour <= 23 /\ minute <= 59 /\ second <= 59
                  /\ day <= DaysInMonth(year, month)
             THEN DaysFromCivil(year, month, day) * 86400 + hour * 3600 + minute * 60 + second
             ELSE -1

\* datetime.isoformat() of a datetime without microseconds
Isoformat(seconds) ==
    LET date == CivilFromDays(seconds \div 86400)
        rest == seconds % 86400
    IN  Padded(date.year, 4) \o <<"-">> \o Padded(date.month, 2) \o <<"-">> \o Padded(date.day, 2)
            \o <<"T">> \o Padded(rest \div 3600, 2) \o <<":">> \o Padded((rest % 3600) \div 60, 2)
            \o <<":">> \o Padded(rest % 60, 2)

\* ToUtc with the offset added for "+" and taken off for "-".
ToUtc_Swapped(local, sign, offset_duration) ==
    IF sign = "+" THEN local + offset_duration ELSE local - offset_duration

\* if time_offset_sign == "+": msg_timestamp - offset_duration
\* elif time_offset_sign == "-": msg_timestamp + offset_duration
ToUtc(local, sign, offset_duration) ==
    IF sign = "+" THEN local - offset_duration ELSE local + offset_duration

\* The dict of a message.
Msg(index, status, sender, timestamp, data) ==
    [index |-> index, status |-> status, sender |-> sender, timestamp |-> timestamp,
     data |-> data]

\* One round of the loop over res["data"]: the message of a meta line and a
\* data line, or the exception raised.
DecodeMessage(meta, data) ==
    LET time == meta.time
        time_offset_sign == SubSeq(time, Len(time) - 2, Len(time) - 2)
        offset_text == SubSeq(time, Len(time) - 1, Len(time))
        local == Strptime(meta.date, SubSeq(time, 1, Len(time) - 3))
        offset_duration == 15 * IntOfText(offset_text) * 60
        fail(exc) == [exc |-> exc, msg |-> Msg(0, "", "", <<>>, "")]
    IN  IF meta.fields # 6 THEN fail("ValueError")
        ELSE IF Len(offset_text) = 0 \/ ~AllDigits(offset_text) THEN fail("ValueError")
        ELSE IF local = -1 THEN fail("ValueError")
        ELSE IF time_offset_sign \notin {<<"+">>, <<"-">>} THEN fail("Exception")
        ELSE IF Len(meta.index) = 0 \/ ~AllDigits(meta.index) THEN fail("ValueError")
        ELSE [exc |-> "",
              msg |-> Msg(IntOfText(meta.index), meta.status, meta.sender,
                          Isoformat(ToUtc(local, time_offset_sign[1], offset_duration)),
                          data.text)]

\* for i in range(0, len(res["data"]), 2): the messages of the lines from
\* line i on, or the first exception raised.  The data line missing after
\* the last meta line is an IndexError.
RECURSIVE DecodeFrom(_, _)
DecodeFrom(lines, i) ==
    IF i > Len(lines) THEN [exc |-> "", values |-> <<>>]
    ELSE IF i + 1 > Len(lines) THEN [exc |-> "IndexError", values |-> <<>>]
    ELSE LET m == DecodeMessage(lines[i], lines[i + 1])
             rest == DecodeFrom(lines, i + 2)
         IN  IF m.exc # "" THEN [exc |-> m.exc, values |-> <<>>]
             ELSE IF rest.exc # "" THEN rest
             ELSE [exc |-> "", values |-> <<m.msg>> \o rest.values]

\* The try block of sms_list after res = self.execute("AT+CMGL=..."):
\* res["data"] of a res without data is a KeyError; a data that is not the
\* lines of a listing has no meta fields to unpack (ValueError).
sms_list_decode(res) ==
    IF ~res.has_data THEN Result("KeyError", NoCmd, "", NoRet)
    ELSE IF res.data.tag # "+CMGL: " THEN Result("ValueError", NoCmd, "", NoRet)
    ELSE LET d == DecodeFrom(res.data.fields, 1)
         IN  IF d.exc # "" THEN Result(d.exc, NoCmd, "", NoRet)
             ELSE Result("", NoCmd, "", ValuesRet(d.values))

\* sms_list_restores without the finally block.
sms_list_restores_Never(listing) == FALSE

\* sms_list_restores with the restore after the try block, not in a finally.
sms_list_restores_AfterTry(listing) == listing.exc = ""

\* finally: self.sms_format(mode=prev_format_mode), however the try ended
sms_list_restores(listing) == TRUE

\* sms_list_outcome with the exception of the restore let through.
sms_list_outcome_Unguarded(listing, restore) == IF restore.exc # "" THEN restore ELSE listing

\* try: self.sms_format(mode=prev_format_mode) / except: log.exception(...):
\* the exception in flight goes on, or ret is returned
sms_list_outcome(listing, restore) == listing

\* A call of sms_format or execute made by the operation in progress.
Invoke(op, mode, cmd) ==
    /\ call' = Call(op, mode, NoFlags, FALSE, <<"OK">>, TRUE, PyNone, TRUE)
    /\ acc' = Acc(IF op = "execute" THEN "exec" ELSE "read", NoRet)
    /\ ex' = DefaultFrame(cmd)
    /\ result' = NoResult

\* The operation in progress ends with the outcome r.
Finish(r) ==
    /\ result' = r
    /\ outer' = [outer EXCEPT !.pc = "done"]
    /\ UNCHANGED <<call, acc, ex>>

\* The format_mode arguments callers pass and the status listed.
SmsListFormatArgs == {"TXT", "PUD", "bogus"}
ListCmd == Cmd("AT+CMGL=", <<"ALL">>)

\* sms_list(format_mode=...) is called: self.sms_format()
CallSmsList ==
    /\ acc.pc = "idle" /\ isOpen
    /\ \E format_mode \in SmsListFormatArgs :
          outer' = Outer("sms_list", "prev", PyStr(format_mode), NoSettings)
    /\ Invoke("sms_format", PyNone, QueryOf("sms_format"))
    /\ pre' = modem
    /\ UNCHANGED <<modem, isOpen, log, peer, crypto>>

\* prev_format_mode = self.sms_format().get("mode", "PUD");
\* if prev_format_mode != format_mode: self.sms_format(mode=format_mode);
\* else the try block begins: res = self.execute("AT+CMGL=...")
SmsListAfterPrev ==
    /\ outer.op = "sms_list" /\ outer.pc = "prev" /\ acc.pc = "done"
    /\ IF result.exc # "" THEN Finish(result)
       ELSE LET prev_format_mode == result.ret.mode
            IN  IF prev_format_mode # outer.format_mode.s
                THEN /\ Invoke("sms_format", outer.format_mode, QueryOf("sms_format"))
                     /\ outer' = [outer EXCEPT !.pc = "switch",
                                               !.prev_format_mode = prev_format_mode]
                ELSE /\ Invoke("execute", PyNone, ListCmd)
                     /\ outer' = [outer EXCEPT !.pc = "list",
                                               !.prev_format_mode = prev_format_mode]
    /\ UNCHANGED <<modem, isOpen, pre, log, peer, crypto>>

\* The sms_format call that sets format_mode ended; the try block begins.
SmsListAfterSwitch ==
    /\ outer.op = "sms_list" /\ outer.pc = "switch" /\ acc.pc = "done"
    /\ IF result.exc # "" THEN Finish(result)
       ELSE /\ Invoke("execute", PyNone, ListCmd)
            /\ outer' = [outer EXCEPT !.pc = "list"]
    /\ UNCHANGED <<modem, isOpen, pre, log, peer, crypto>>

\* The execute call of the try block ended: its res is decoded, and the
\* finally block begins: self.sms_format(mode=prev_format_mode)
SmsListAfterList ==
    /\ outer.op = "sms_list" /\ outer.pc = "list" /\ acc.pc = "done"
    /\ LET listing == IF result.exc # "" THEN result ELSE sms_list_decode(result.ret.res)
       IN  IF sms_list_restores(listing)
           THEN /\ Invoke("sms_format", PyStr(outer.prev_format_mode), QueryOf("sms_format"))
                /\ outer' = [outer EXCEPT !.pc = "restore", !.listing = listing]
           ELSE Finish(listing)
    /\ UNCHANGED <<modem, isOpen, pre, log, peer, crypto>>

\* The sms_format call of the finally block ended: sms_list ends.
SmsListAfterRestore ==
    /\ outer.op = "sms_list" /\ outer.pc = "restore" /\ acc.pc = "done"
    /\ Finish(sms_list_outcome(outer.listing, result))
    /\ UNCHANGED <<modem, isOpen, pre, log, peer, crypto>>

\* ---------------------------------------------- set, then read back

\* Every combination of the six flags, and the modes of the setting.
AllFlagArgs == {[i \in 1..6 |-> PyBool(b[i])] : b \in [1..6 -> BOOLEAN]}
NmeaModes == {PyStr(m) : m \in Values(NMEA_MODE_MAP)}

\* The configurations of the modem from which callers set a configuration
\* and read it back: the factory one, and port_lock with flags on.
SetThenGetModems ==
    {FactoryModem,
     [FactoryModem EXCEPT !.nmun_mode = NMEA_MODE_PORT_LOCK,
                          !.nmun_flags = FlagVector(MaxFlagCode)]}

\* A caller sets the NMEA configuration:
\* gnss_nmea_data_config(mode, gga, gll, gsa, gsv, rmc, vtg, force)
CallSetThenGet ==
    /\ acc.pc = "idle" /\ isOpen
    /\ modem \in SetThenGetModems
    /\ \E mode \in NmeaModes, flags \in AllFlagArgs, force \in BOOLEAN :
          LET c == Call("gnss_nmea_data_config", mode, flags, force, <<>>, TRUE, PyNone, TRUE)
          IN  /\ call' = c
              /\ outer' = [Outer("set_then_get", "set", PyNone, NoSettings) EXCEPT !.target = c]
    /\ acc' = Acc("read", NoRet)
    /\ ex' = DefaultFrame(QueryOf("gnss_nmea_data_config"))
    /\ pre' = modem
    /\ UNCHANGED <<modem, isOpen, log, result, peer, crypto>>

\* The setting call ended; if it returned, the caller reads the
\* configuration back: gnss_nmea_data_config()
SetThenGetAfterSet ==
    /\ outer.op = "set_then_get" /\ outer.pc = "set" /\ acc.pc = "done"
    /\ IF result.exc # "" THEN Finish(result)
       ELSE /\ Invoke("gnss_nmea_data_config", PyNone, QueryOf("gnss_nmea_data_config"))
            /\ outer' = [outer EXCEPT !.pc = "get"]
    /\ UNCHANGED <<modem, isOpen, pre, log, peer, crypto>>

\* The reading call ended.
SetThenGetAfterGet ==
    /\ outer.op = "set_then_get" /\ outer.pc = "get" /\ acc.pc = "done"
    /\ Finish(result)
    /\ UNCHANGED <<modem, isOpen, pre, log, peer, crypto>>

\* ------------------------------------------------------------ open, config

\* The transport is opened; self.write(text) of the escape sequence.
OpenEv(out) == Event("open", NoCmd, "", out, NoData, "")
WriteEv(text, out) == Event("write", Cmd(text, <<>>), "", out, NoData, "")
EscapeCmd == Cmd("+++", <<>>)

\* The settings init leaves on the connection: each key absent, or present
\* with one of the values callers configure.
OpenSettings ==
    {[perform_initial_nmea_escape |-> p,
      error_config |-> IF he THEN e ELSE PyNone, has_error_config |-> he,
      gnss_session |-> IF hg THEN g ELSE PyNone, has_gnss_session |-> hg] :
        p \in BOOLEAN, he \in BOOLEAN, e \in ErrorModeArgs, hg \in BOOLEAN, g \in StatusArgs}

\* config_escapes with the escape sequence sent whatever the settings say.
config_escapes_Always(settings) == TRUE

\* if settings.get("perform_initial_nmea_escape", False)
config_escapes(settings) == settings.perform_initial_nmea_escape

\* open or config ends with the outcome r.
ConfigEnds(r) ==
    /\ result' = r
    /\ outer' = [outer EXCEPT !.pc = "done"]
    /\ acc' = Acc("done", NoRet)
    /\ call' = call
    /\ ex' = NoFrame

\* open() is called on the closed connection: super(LE910CXConn, self).open(),
\* then self.config(self._settings)
CallOpen ==
    /\ acc.pc = "idle" /\ ~isOpen
    /\ pre' = modem
    /\ \E settings \in OpenSettings, out \in WriteOutcomes :
          /\ log' = Append(log, OpenEv(out))
          /\ IF out = "fail"
             THEN /\ ConfigEnds(Result("SerialException", NoCmd, "", NoRet))
                  /\ isOpen' = FALSE
             ELSE /\ outer' = Outer("open", "escape", PyNone, settings)
                  /\ isOpen' = TRUE
                  /\ UNCHANGED <<call, acc, ex, result>>
    /\ UNCHANGED <<modem, peer, crypto>>

\* config: if settings.get("perform_initial_nmea_escape", False):
\* self.send_nmea_escape_sequence(wait=True), whose first statement is
\* self.write("+++")
ConfigEscape ==
    /\ outer.op = "open" /\ outer.pc = "escape"
    /\ IF config_escapes(outer.settings)
       THEN \E wr \in WriteOutcomes :
               /\ log' = Append(log, WriteEv("+++", wr))
               /\ IF wr = "fail"
                  THEN ConfigEnds(Result("WriteError", NoCmd, "", NoRet))
                  ELSE /\ outer' = [outer EXCEPT !.pc = "wait"]
                       /\ UNCHANGED <<call, acc, ex, result>>
       ELSE /\ outer' = [outer EXCEPT !.pc = "error_config"]
            /\ UNCHANGED <<call, acc, ex, result, log>>
    /\ UNCHANGED <<modem, isOpen, pre, peer, crypto>>

\* send_nmea_escape_sequence: if wait: res = self.read_until("NO CARRIER",
\* error_regex, timeout=timeout); return res.  A timeout leaves open; a res
\* with "error" is returned like any other, and config goes on.
EscapeWait ==
    /\ outer.op = "open" /\ outer.pc = "wait"
    /\ \E beh \in Behaviours :
          LET r == ReadUntil(modem, EscapeCmd, beh, TRUE)
              out == IF r.exc # "" THEN "timeout"
                     ELSE IF r.res.has_error THEN "error" ELSE "ready"
          IN  /\ log' = Append(log, ReadUntilEv("NO CARRIER", out, GetData(r.res), r.res.error))
              /\ IF r.exc # ""
                 THEN ConfigEnds(Result(r.exc, NoCmd, "", NoRet))
                 ELSE /\ outer' = [outer EXCEPT !.pc = "error_config"]
                      /\ UNCHANGED <<call, acc, ex, result>>
    /\ UNCHANGED <<modem, isOpen, pre, peer, crypto>>

\* if "error_config" in settings: self.error_config(mode=settings["error_config"])
ConfigErrorConfig ==
    /\ outer.op = "open" /\ outer.pc = "error_config"
    /\ IF outer.settings.has_error_config
       THEN /\ Invoke("error_config", outer.settings.error_config, QueryOf("error_config"))
            /\ outer' = [outer EXCEPT !.pc = "error_config_called"]
       ELSE /\ outer' = [outer EXCEPT !.pc = "gnss_session"]
            /\ UNCHANGED <<call, acc, ex, result>>
    /\ UNCHANGED <<modem, isOpen, pre, log, peer, crypto>>

\* The error_config call ended: its exception leaves config and open.
ConfigAfterErrorConfig ==
    /\ outer.op = "open" /\ outer.pc = "error_config_called" /\ acc.pc = "done"
    /\ IF result.exc # "" THEN ConfigEnds(result)
       ELSE /\ outer' = [outer EXCEPT !.pc = "gnss_session"]
            /\ UNCHANGED <<call, acc, ex, result>>
    /\ UNCHANGED <<modem, isOpen, pre, log, peer, crypto>>

\* if "gnss_session" in settings: self.gnss_session(status=settings["gnss_session"])
ConfigGnssSession ==
    /\ outer.op = "open" /\ outer.pc = "gnss_session"
    /\ IF outer.settings.has_gnss_session
       THEN /\ Invoke("gnss_session", outer.settings.gnss_session, QueryOf("gnss_session"))
            /\ outer' = [outer EXCEPT !.pc = "gnss_session_called"]
       ELSE ConfigEnds(NoResult)
    /\ UNCHANGED <<modem, isOpen, pre, log, peer, crypto>>

\* The gnss_session call ended: config and open return None, or its
\* exception leaves them.
ConfigAfterGnssSession ==
    /\ outer.op = "open" /\ outer.pc = "gnss_session_called" /\ acc.pc = "done"
    /\ ConfigEnds(IF result.exc # "" THEN result ELSE NoResult)
    /\ UNCHANGED <<modem, isOpen, pre, log, peer, crypto>>

\* --------------------------------------------- two callers, one transport

\* MayBegin without the lock.
MayBegin_Unlocked(locking, busy) == TRUE

\* A caller may begin its accessor call: under the shared exclusive lock,
\* only when the other caller is not inside a call of its own.
MayBegin(locking, busy) == locking => ~busy

\* The first caller calls error_config or gnss_session.
CallerBegins ==
    /\ MayBegin(peer.locking, peer.pc # "idle")
    /\ \/ CallErrorConfig
       \/ CallGnssSession

\* The second caller calls error_config(mode) or gnss_session(status):
\* res = self.execute(<query>) begins.
PeerCalls ==
    /\ peer.pc = "idle" /\ isOpen
    /\ MayBegin(peer.locking, acc.pc \notin {"idle", "done"})
    /\ \E c \in {Call("error_config", PyStr(m), NoFlags, FALSE, <<>>, TRUE, PyNone, TRUE) :
                    m \in Values(ME_ERROR_MODE_MAP)}
                \cup {Call("gnss_session", PyBool(b), NoFlags, FALSE, <<>>, TRUE, PyNone, TRUE) :
                         b \in BOOLEAN} :
          peer' = [peer EXCEPT !.pc = "read", !.call = c]
    /\ UNCHANGED <<modem, isOpen, call, acc, ex, pre, log, result, outer, crypto>>

\* Its query is answered with the setting the modem holds, and the accessor
\* compares: it goes on to write, or returns.
PeerReads ==
    /\ peer.pc = "read"
    /\ LET plan == PlanOf(peer.call, DataRes(ModemData(modem, QueryOf(peer.call.op))))
       IN  peer' = [peer EXCEPT !.pc = IF plan.kind = "write" THEN "write" ELSE "done",
                                !.plan = plan]
    /\ UNCHANGED <<modem, isOpen, call, acc, ex, pre, log, result, outer, crypto>>

\* Its set command is carried out and acknowledged.  The state in which the
\* first caller's call has just returned is the moment of that return: the
\* second caller's write falls before or after it.
PeerWrites ==
    /\ peer.pc = "write" /\ acc.pc # "done"
    /\ modem' = ModemApply(modem, peer.plan.cmd)
    /\ peer' = [peer EXCEPT !.pc = "done"]
    /\ UNCHANGED <<isOpen, call, acc, ex, pre, log, result, outer, crypto>>

\* Its call returns.
PeerReturns ==
    /\ peer.pc = "done"
    /\ peer' = Peer(peer.locking, "idle", NoCall, NoPlan)
    /\ UNCHANGED <<modem, isOpen, call, acc, ex, pre, log, result, outer, crypto>>

\* ------------------------------------------------------------ crypto manager

\* The command names callers query, "_type" of each (cmd.lower()) and the
\* attribute name looked up: if not cmd.startswith('_'): cmd = "_{}".format(cmd)
QueryCmds == {"public_key", "_public_key", "Public_Key", "bogus", "__doc__"}
Lower(cmd) == IF cmd = "Public_Key" THEN "public_key" ELSE cmd
StartsWithUnderscore(cmd) == cmd \in {"_public_key", "__doc__"}
AttrName(cmd) ==
    IF StartsWithUnderscore(cmd) THEN cmd
    ELSE CASE cmd = "public_key" -> "_public_key"
           [] cmd = "Public_Key" -> "_Public_Key"
           [] cmd = "bogus" -> "_bogus"

\* The attributes getattr(conn, name) finds: the command _public_key, and
\* __doc__, which every object has and which is not callable.
ConnCommands == {"_public_key"}
ConnAttrs == ConnCommands \cup {"__doc__"}

\* try: func = getattr(conn, cmd) / except AttributeError
HasAttr(name) == name \in ConnAttrs

\* with conn: entered and left; a method of conn called.
EnterEv(out) == Event("enter", NoCmd, "", out, NoData, "")
ExitEv == Event("exit", NoCmd, "", "ok", NoData, "")
ConnCallEv(name, out) == Event("call", NoCmd, name, out, NoData, "")

\* generate_key_handler_refuses with force ignored.
generate_key_handler_refuses_Never(existing_key, force) == FALSE

\* if existing_key: ... if not force: raise Exception('Key already exists...')
generate_key_handler_refuses(existing_key, force) == existing_key # NoKey /\ ~force

\* generate_key_handler(keyid, force=...) is called: with conn
CallGenerateKey ==
    /\ crypto.pc = "idle"
    /\ \E keyid \in KeyIds, force \in BOOLEAN :
          crypto' = [Crypto(crypto.keys) EXCEPT !.pc = "enter", !.handler = "generate_key",
                                                !.keyid = keyid, !.force = force]
    /\ log' = <<>>
    /\ UNCHANGED <<modem, isOpen, call, acc, ex, pre, result, outer, peer>>

\* query_handler(cmd) is called: ret = {"_type": cmd.lower()}; the attribute
\* is looked up; if it is not found ret["error"] is set and ret returned,
\* else with conn
CallQuery ==
    /\ crypto.pc = "idle"
    /\ \E cmd \in QueryCmds :
          LET name == AttrName(cmd)
              c == [Crypto(crypto.keys) EXCEPT !.handler = "query", !.cmd = name,
                                               !.ret = HandlerRet(Lower(cmd), "", NoKey)]
          IN  crypto' = IF HasAttr(name) THEN [c EXCEPT !.pc = "enter"]
                        ELSE [c EXCEPT !.pc = "done",
                                       !.ret = HandlerRet(Lower(cmd), "Unsupported command", NoKey)]
    /\ log' = <<>>
    /\ UNCHANGED <<modem, isOpen, call, acc, ex, pre, result, outer, peer>>

\* with conn: conn.__enter__() acquires the connection, or raises.
ConnEnter ==
    /\ crypto.pc = "enter"
    /\ \E out \in {"ok", "fail"} :
          /\ log' = Append(log, EnterEv(out))
          /\ crypto' = IF out = "fail" THEN [crypto EXCEPT !.pc = "done", !.exc = "ConnError"]
                       ELSE [crypto EXCEPT !.entered = TRUE,
                                           !.pc = IF crypto.handler = "generate_key"
                                                  THEN "existing" ELSE "invoke"]
    /\ UNCHANGED <<modem, isOpen, call, acc, ex, pre, result, outer, peer>>

\* existing_key = conn._public_key(keyid); if existing_key: if not force: raise
ReadExistingKey ==
    /\ crypto.pc = "existing"
    /\ \E out \in {"ok", "fail"} :
          /\ log' = Append(log, ConnCallEv("_public_key", out))
          /\ crypto' =
                IF out = "fail" THEN [crypto EXCEPT !.pc = "exit", !.exc = "ConnError"]
                ELSE LET existing_key == crypto.keys[crypto.keyid]
                     IN  IF generate_key_handler_refuses(existing_key, crypto.force)
                         THEN [crypto EXCEPT !.pc = "exit", !.exc = "Exception",
                                             !.existing_key = existing_key]
                         ELSE [crypto EXCEPT !.pc = "generate", !.existing_key = existing_key]
    /\ UNCHANGED <<modem, isOpen, call, acc, ex, pre, result, outer, peer>>

\* conn.generate_key(keyid, confirm=confirm, policy_name=policy_name): the
\* element makes a fresh key, returns without making one, or the call raises.
GenerateKey ==
    /\ crypto.pc = "generate"
    /\ \E out \in {"changed", "unchanged", "fail"} :
          /\ log' = Append(log, ConnCallEv("generate_key", out))
          /\ crypto' =
                CASE out = "changed" ->
                        [crypto EXCEPT !.pc = "new",
                                       !.keys[crypto.keyid] = FreshKey(crypto.keys[crypto.keyid])]
                  [] out = "unchanged" -> [crypto EXCEPT !.pc = "new"]
                  [] out = "fail" -> [crypto EXCEPT !.pc = "exit", !.exc = "ConnError"]
    /\ UNCHANGED <<modem, isOpen, call, acc, ex, pre, result, outer, peer>>

\* key_string = conn._public_key(keyid); if existing_key == key_string: raise;
\* return {"value": key_string}
ReadNewKey ==
    /\ crypto.pc = "new"
    /\ \E out \in {"ok", "fail"} :
          /\ log' = Append(log, ConnCallEv("_public_key", out))
          /\ crypto' =
                IF out = "fail" THEN [crypto EXCEPT !.pc = "exit", !.exc = "ConnError"]
                ELSE LET key_string == crypto.keys[crypto.keyid]
                     IN  IF crypto.existing_key = key_string
                         THEN [crypto EXCEPT !.pc = "exit", !.exc = "Exception",
                                             !.key_string = key_string]
                         ELSE [crypto EXCEPT !.pc = "exit", !.key_string = key_string,
                                             !.ret = HandlerRet("", "", key_string)]
    /\ UNCHANGED <<modem, isOpen, call, acc, ex, pre, result, outer, peer>>

\* res = func(*args, **kwargs); if res != None: ret["value"] = res.  Calling
\* an attribute that is not callable raises TypeError.
InvokeFunc ==
    /\ crypto.pc = "invoke"
    /\ IF crypto.cmd \notin ConnCommands
       THEN /\ crypto' = [crypto EXCEPT !.pc = "exit", !.exc = "TypeError"]
            /\ log' = log
       ELSE \E out \in {"ok", "none", "fail"} :
               /\ log' = Append(log, ConnCallEv(crypto.cmd, out))
               /\ crypto' =
                     CASE out = "ok" ->
                             [crypto EXCEPT !.pc = "exit",
                                            !.ret.value = crypto.keys["3dc586a1"]]
                       [] out = "none" -> [crypto EXCEPT !.pc = "exit"]
                       [] out = "fail" -> [crypto EXCEPT !.pc = "exit", !.exc = "ConnError"]
    /\ UNCHANGED <<modem, isOpen, call, acc, ex, pre, result, outer, peer>>

\* The with block is left, by return or by the exception in flight:
\* conn.__exit__() releases the connection.
ConnExit ==
    /\ crypto.pc = "exit"
    /\ log' = Append(log, ExitEv)
    /\ crypto' = [crypto EXCEPT !.pc = "done", !.entered = FALSE]
    /\ UNCHANGED <<modem, isOpen, call, acc, ex, pre, result, outer, peer>>

\* The caller takes the handler's outcome; the next handler may begin.
HandlerReturns ==
    /\ crypto.pc = "done"
    /\ crypto' = Crypto(crypto.keys)
    /\ log' = <<>>
    /\ UNCHANGED <<modem, isOpen, call, acc, ex, pre, result, outer, peer>>

\* --------------------------------------------------------- specifications

InitExecute == modem = FactoryModem /\ isOpen = TRUE /\ Idle

NextExecute ==
    \/ CallExecute
    \/ ExWriteLine
    \/ ExReadUntil
    \/ ExFinally
    \/ ExCooldown
    \/ ExRaiseOrReturn
    \/ ExecuteEnds
    \/ Return

\* Callers of execute on one connection.
SpecExecute == InitExecute /\ [][NextExecute]_vars

InitAccessors == modem \in Modems /\ isOpen = TRUE /\ Idle

NextAccessors ==
    \/ CallErrorConfig
    \/ CallSmsFormat
    \/ CallGnssSession
    \/ CallGnssNmeaDataConfig
    \/ ExWriteLine
    \/ ExReadUntil
    \/ ExFinally
    \/ ExCooldown
    \/ ExRaiseOrReturn
    \/ AccessorAfterRead
    \/ AccessorAfterWrite
    \/ Return

\* Callers of the four setting accessors on one connection, the modem in any
\* state.
SpecAccessors == InitAccessors /\ [][NextAccessors]_vars

\* The position reports the modem gives: the example report and the report
\* without its other fields, or without one of them, with each fix code; the
\* example in the southern and western hemispheres; and reports with a field
\* that is not of its pattern.
WithFix(report, fix) == [report EXCEPT ![6] = <<fix>>]
Without(report, drop) == [i \in 1..12 |-> IF i \in drop THEN <<>> ELSE report[i]]
DropSets == {{}, (1..12) \ {6}} \cup {{i} : i \in (1..12) \ {6}}
AcpReports ==
    {WithFix(Without(FixReport, drop), fix) : drop \in DropSets, fix \in {"0", "1", "2", "3"}}
        \cup {[FixReport EXCEPT ![2][10] = "S", ![3][11] = "W"],
              [NoFixReport EXCEPT ![11] = <<"x">>],
              [FixReport EXCEPT ![12] = <<"x">>],
              [FixReport EXCEPT ![6] = <<"4">>]}

InitDecoders ==
    /\ modem \in {[FactoryModem EXCEPT !.acp = r] : r \in AcpReports}
    /\ isOpen = TRUE
    /\ Idle

NextDecoders ==
    \/ CallImei
    \/ CallGnssLocation
    \/ ExWriteLine
    \/ ExReadUntil
    \/ ExFinally
    \/ ExCooldown
    \/ ExRaiseOrReturn
    \/ DecoderAfterRead
    \/ Return

\* Callers of the decoders imei and gnss_location on one connection, the
\* modem with any of the position reports.
SpecDecoders == InitDecoders /\ [][NextDecoders]_vars

\* The messages the modem holds: one message with each of the dates, times,
\* offset signs and offsets; two messages; and listings that are not of the
\* documented shape (a sign that is none, a meta line short of a field, a
\* meta line without its data line, a date that is none).
SmsDates == {<<"2", "1", "/", "1", "1", "/", "1", "6">>, <<"2", "1", "/", "1", "2", "/", "3", "1">>, <<"2", "0", "/", "0", "3", "/", "0", "1">>}
SmsTimes == {<<"1", "4", ":", "1", "0", ":", "0", "0">>, <<"2", "3", ":", "3", "0", ":", "0", "0">>, <<"0", "0", ":", "1", "0", ":", "0", "0">>}
SmsSigns == {"+", "-", "x"}
SmsOffsets == {<<"0", "0">>, <<"0", "4">>, <<"4", "8">>}
Stored(index, date, time, sign, offset) ==
    <<MetaLine(index, date, time \o <<sign>> \o offset), DataLine("hello")>>
ExampleMessage == Stored(<<"1">>, <<"2", "1", "/", "1", "1", "/", "1", "6">>, <<"1", "4", ":", "1", "0", ":", "0", "0">>, "+", <<"0", "4">>)
Inboxes ==
    {<<>>}
        \cup {Stored(<<"1">>, date, time, sign, offset) :
                 date \in SmsDates, time \in SmsTimes, sign \in SmsSigns, offset \in SmsOffsets}
        \cup {ExampleMessage \o Stored(<<"2">>, <<"2", "1", "/", "1", "2", "/", "3", "1">>, <<"2", "3", ":", "3", "0", ":", "0", "0">>, "-", <<"0", "4">>),
              ExampleMessage \o Stored(<<"2">>, <<"2", "1", "/", "1", "1", "/", "1", "6">>, <<"1", "4", ":", "1", "0", ":", "0", "0">>, "x", <<"0", "4">>),
              <<[ExampleMessage[1] EXCEPT !.fields = 5], ExampleMessage[2]>>,
              <<ExampleMessage[1]>>,
              Stored(<<"1">>, <<"2", "1", "/", "0", "2", "/", "3", "0">>, <<"1", "4", ":", "1", "0", ":", "0", "0">>, "+", <<"0", "4">>)}

InitSmsList ==
    /\ modem \in {[FactoryModem EXCEPT !.cmgf = m, !.inbox = b] :
                     m \in DOMAIN SMS_FORMAT_MODES, b \in Inboxes}
    /\ isOpen = TRUE
    /\ Idle

NextSmsList ==
    \/ CallSmsList
    \/ ExWriteLine
    \/ ExReadUntil
    \/ ExFinally
    \/ ExCooldown
    \/ ExRaiseOrReturn
    \/ ExecuteEnds
    \/ AccessorAfterRead
    \/ AccessorAfterWrite
    \/ SmsListAfterPrev
    \/ SmsListAfterSwitch
    \/ SmsListAfterList
    \/ SmsListAfterRestore
    \/ Return

\* Callers of sms_list on one connection, the modem in either format mode
\* and with any of the inboxes.
SpecSmsList == InitSmsList /\ [][NextSmsList]_vars

InitSetThenGet ==
    /\ modem \in SetThenGetModems
    /\ isOpen = TRUE
    /\ Idle

NextSetThenGet ==
    \/ CallSetThenGet
    \/ ExWriteLine
    \/ ExReadUntil
    \/ ExFinally
    \/ ExCooldown
    \/ ExRaiseOrReturn
    \/ AccessorAfterRead
    \/ AccessorAfterWrite
    \/ SetThenGetAfterSet
    \/ SetThenGetAfterGet
    \/ Return

\* Callers that set the NMEA configuration and read it back.
SpecSetThenGet == InitSetThenGet /\ [][NextSetThenGet]_vars

InitOpen ==
    /\ modem \in {[FactoryModem EXCEPT !.cmee = c, !.gpsp = g] :
                     c \in DOMAIN ME_ERROR_MODE_MAP, g \in {0, 1}}
    /\ isOpen = FALSE
    /\ Idle

NextOpen ==
    \/ CallOpen
    \/ ConfigEscape
    \/ EscapeWait
    \/ ConfigErrorConfig
    \/ ConfigAfterErrorConfig
    \/ ConfigGnssSession
    \/ ConfigAfterGnssSession
    \/ ExWriteLine
    \/ ExReadUntil
    \/ ExFinally
    \/ ExCooldown
    \/ ExRaiseOrReturn
    \/ AccessorAfterRead
    \/ AccessorAfterWrite
    \/ Return

\* Callers that open the closed connection, with any of the settings and
\* the modem holding any error mode and session status.
SpecOpen == InitOpen /\ [][NextOpen]_vars

InitDecoding ==
    /\ modem \in {[FactoryModem EXCEPT !.cmgf = m, !.inbox = b, !.acp = r] :
                     m \in DOMAIN SMS_FORMAT_MODES, b \in {<<>>, ExampleMessage},
                     r \in {FixReport, NoFixReport}}
    /\ isOpen = TRUE
    /\ Idle

NextDecoding ==
    \/ CallImei
    \/ CallGnssLocation
    \/ CallSmsList
    \/ ExWriteLine
    \/ ExReadUntil
    \/ ExFinally
    \/ ExCooldown
    \/ ExRaiseOrReturn
    \/ ExecuteEnds
    \/ DecoderAfterRead
    \/ AccessorAfterRead
    \/ AccessorAfterWrite
    \/ SmsListAfterPrev
    \/ SmsListAfterSwitch
    \/ SmsListAfterList
    \/ SmsListAfterRestore
    \/ Return

\* Callers of the decoders imei, gnss_location and sms_list on one
\* connection, the modem in either format mode.
SpecDecoding == InitDecoding /\ [][NextDecoding]_vars

InitCallers ==
    /\ modem \in {[FactoryModem EXCEPT !.cmee = c, !.gpsp = g] :
                     c \in DOMAIN ME_ERROR_MODE_MAP, g \in {0, 1}}
    /\ isOpen = TRUE
    /\ call = NoCall
    /\ acc = Acc("idle", NoRet)
    /\ ex = NoFrame
    /\ pre = modem
    /\ log = <<>>
    /\ result = NoResult
    /\ outer = NoOuter
    /\ peer \in {Peer(locking, "idle", NoCall, NoPlan) : locking \in BOOLEAN}
    /\ crypto = NoCrypto

NextCallers ==
    \/ CallerBegins
    \/ ExWriteLine
    \/ ExReadUntil
    \/ ExFinally
    \/ ExCooldown
    \/ ExRaiseOrReturn
    \/ AccessorAfterRead
    \/ AccessorAfterWrite
    \/ Return
    \/ PeerCalls
    \/ PeerReads
    \/ PeerWrites
    \/ PeerReturns

\* Two callers of error_config and gnss_session on one transport, with and
\* without a shared exclusive lock.
SpecCallers == InitCallers /\ [][NextCallers]_vars

InitCrypto ==
    /\ modem = FactoryModem
    /\ isOpen = TRUE
    /\ call = NoCall
    /\ acc = Acc("idle", NoRet)
    /\ ex = NoFrame
    /\ pre = modem
    /\ log = <<>>
    /\ result = NoResult
    /\ outer = NoOuter
    /\ peer = NoPeer
    /\ crypto \in {Crypto(keys) : keys \in [KeyIds -> Keys]}

NextCrypto ==
    \/ CallGenerateKey
    \/ CallQuery
    \/ ConnEnter
    \/ ReadExistingKey
    \/ GenerateKey
    \/ ReadNewKey
    \/ InvokeFunc
    \/ ConnExit
    \/ HandlerReturns

\* Callers of generate_key_handler and query_handler of the crypto manager,
\* the secure element holding any keys.
SpecCrypto == InitCrypto /\ [][NextCrypto]_vars

\* ------------------------------------------------------------------ claims

\* The operation has ended: result holds its outcome.
Done == acc.pc = "done"

\* The places of the log where op was performed.
Places(op) == {i \in 1..Len(log) : log[i].op = op}

\* The reads that matched the error pattern.
ErrorReads == {i \in Places("read_until") : log[i].out = "error"}

\* The command line of the operation was written.
Written == Len(log) >= 1 /\ log[1].op = "write_line" /\ log[1].out = "ok"

\* C1: in execute, once the error pattern is matched while a ready word is
\* awaited, no read-until step follows in that call: the scan has stopped.
C1_ScanStopsAtError ==
    call.op = "execute" =>
        \A i \in ErrorReads :
            /\ \A j \in Places("read_until") : j <= i
            /\ ex.pc # "read_until"

\* C1's case: a call with two ready words whose first read matched the error.
C1_Witness ==
    /\ Done /\ call.op = "execute"
    /\ Len(call.ready_words) = 2
    /\ ErrorReads = {2}
    /\ Cardinality(Places("read_until")) = 1

\* C2: when an error sentinel is matched during execute, raise_on_error true
\* makes the call fail with CommandExecutionException naming the command and
\* the error; raise_on_error false makes it return the res with its error.
C2_ErrorRaisedOrReturned ==
    (Done /\ call.op = "execute" /\ ErrorReads # {}) =>
        LET e == log[CHOOSE i \in ErrorReads : TRUE]
        IN  IF call.raise_on_error
            THEN /\ result.exc = "CommandExecutionException"
                 /\ result.exc_cmd = log[1].cmd
                 /\ result.exc_error = e.error
                 /\ result.ret = NoRet
            ELSE /\ result.exc = ""
                 /\ result.ret.t = "res"
                 /\ result.ret.res.has_error
                 /\ result.ret.res.error = e.error

\* C2's case: the coded error was matched and returned, not raised.
C2_Witness ==
    /\ Done /\ call.op = "execute" /\ ~call.raise_on_error
    /\ \E i \in ErrorReads : log[i].error = "+CME ERROR: unknown"
    /\ result.exc = "" /\ result.ret.res.error = "+CME ERROR: unknown"

\* C3: execute with keep_conn false closes the transport exactly once, after
\* the exchange, however the call ends; with keep_conn true it never closes.
C3_ClosedOnceOnEveryExit ==
    call.op = "execute" =>
        /\ \A i \in Places("close") :
              \A j \in Places("write_line") \cup Places("read_until") : j < i
        /\ call.keep_conn => (Places("close") = {} /\ isOpen)
        /\ (Done /\ ~call.keep_conn) => (Cardinality(Places("close")) = 1 /\ ~isOpen)

\* C3's case: the read timed out and the transport was closed on the way out.
C3_Witness ==
    /\ Done /\ call.op = "execute" /\ ~call.keep_conn
    /\ result.exc = "Timeout"
    /\ Cardinality(Places("close")) = 1 /\ ~isOpen

\* C4: with cooldown_delay set, every execute call whose command was written
\* pauses before control leaves it, whatever the outcome: ready word, error
\* sentinel or timeout.
C4_CooldownOnEveryOutcome ==
    (Done /\ call.op = "execute" /\ call.cooldown_delay # PyNone /\ Written) =>
        Places("sleep") # {}

\* C5: for every ready_words list, when no read of the call matched a ready
\* word or the error pattern, execute fails with Timeout, the command line
\* was written once and nothing is returned.
C5_SilentTransportTimesOut ==
    (Done /\ call.op = "execute" /\ Written
          /\ \A i \in Places("read_until") : log[i].out = "timeout") =>
        /\ result.exc = "Timeout"
        /\ Cardinality(Places("write_line")) = 1
        /\ result.ret = NoRet

\* The commands that change a setting, and the places they were written.
SetCommands == {"AT+CMEE=", "AT+CMGF=", "AT$GPSP=", "AT$GPSNMUN="}
SetWrites == {i \in Places("write_line") : log[i].cmd.name \in SetCommands}

\* The accessor's read query was written first; it was answered with the
\* ready word and the modem's data.
QuerySent == Len(log) >= 1 /\ log[1].op = "write_line" /\ log[1].cmd = QueryOf(call.op)
QueryOk ==
    /\ QuerySent /\ log[1].out = "ok"
    /\ Len(log) >= 2
    /\ log[2] = ReadUntilEv("OK", "ready", ModemData(pre, QueryOf(call.op)), "")

\* The value of the accessor's setting a modem holds, as the accessor's dict.
CurrentRet(op, m) ==
    CASE op = "error_config" -> ModeRet(ME_ERROR_MODE_MAP[m.cmee])
      [] op = "sms_format" -> ModeRet(SMS_FORMAT_MODES[m.cmgf])
      [] op = "gnss_session" -> StatusRet(m.gpsp = 1)
      [] op = "gnss_nmea_data_config" ->
            NmeaRet(NMEA_MODE_MAP[m.nmun_mode], [i \in 1..6 |-> m.nmun_flags[i] = 1])

\* The desired value of a call as the accessor's dict, when it is in the
\* setting's domain (SMS mode names in either case).
AllBool(flags) == \A i \in 1..6 : flags[i].t = "bool"
ValidDesired(c) ==
    CASE c.op = "error_config" -> c.desired.t = "str" /\ c.desired.s \in {"disabled", "numeric", "verbose"}
      [] c.op = "sms_format" -> c.desired.t = "str" /\ c.desired.s \in {"PUD", "TXT", "pud", "txt"}
      [] c.op = "gnss_session" -> c.desired.t = "bool"
      [] c.op = "gnss_nmea_data_config" ->
            /\ c.desired.t = "str"
            /\ c.desired.s \in {"disabled", "first_format", "second_format", "port_lock"}
            /\ AllBool(c.flags)
      [] OTHER -> FALSE
DesiredRet(c) ==
    CASE c.op = "error_config" -> ModeRet(c.desired.s)
      [] c.op = "sms_format" -> ModeRet(IF c.desired.s \in {"pud", "PUD"} THEN "PUD" ELSE "TXT")
      [] c.op = "gnss_session" -> StatusRet(c.desired.b)
      [] c.op = "gnss_nmea_data_config" -> NmeaRet(c.desired.s, [i \in 1..6 |-> c.flags[i].b])

\* What the accessor sent first is its read query, and every write of a
\* setting came after the query was answered.
ReadQueryFirst ==
    /\ Len(log) >= 1 => QuerySent
    /\ \A j \in SetWrites : j > 2 /\ log[2].op = "read_until" /\ log[2].out = "ready"

\* C6 as stated: each of the four accessors, for every desired value and
\* force flag, sends its read query first; no write is sent before the query
\* has completed.
C6_ReadQueryAlwaysFirst == call.op \in Accessors => ReadQueryFirst

\* C6 as amended: error_config, gnss_session and gnss_nmea_data_config always
\* send their read query first, and sms_format does when force is false;
\* sms_format with force true sends no read query at all.
C6_ReadQueryFirstUnlessForcedSms ==
    call.op \in Accessors =>
        IF call.op = "sms_format" /\ call.force
        THEN \A i \in 1..Len(log) : log[i].cmd # QueryOf("sms_format")
        ELSE ReadQueryFirst /\ (Done => QuerySent)

\* C6's case: an accessor wrote its setting after its query was answered.
C6_Witness ==
    /\ Done /\ call.op = "gnss_nmea_data_config"
    /\ QueryOk /\ SetWrites = {3}

\* A call with desired = None whose query, if sent, was answered.
GetterCall == Done /\ call.op \in Accessors /\ call.desired = PyNone /\ (QuerySent => QueryOk)

\* The call returned the value the modem held and wrote no setting.
PureGet ==
    /\ result.exc = ""
    /\ result.ret = CurrentRet(call.op, pre)
    /\ SetWrites = {}
    /\ modem = pre

\* C7 as stated: a call with desired = None, for any force, returns the value
\* decoded from the read query and sends no write command.
C7_NoneIsPureGetter == GetterCall => PureGet

\* C7 as amended: so it is for error_config, gnss_session and
\* gnss_nmea_data_config for any force and for sms_format with force false;
\* sms_format(None, force = true) sends nothing and fails with ValueError.
C7_NoneIsPureGetterUnlessForcedSms ==
    GetterCall =>
        IF call.op = "sms_format" /\ call.force
        THEN result.exc = "ValueError" /\ log = <<>> /\ modem = pre
        ELSE QueryOk /\ PureGet

\* C7's case: the NMEA configuration read with a flag on and a flag off.
C7_Witness ==
    /\ GetterCall /\ call.op = "gnss_nmea_data_config" /\ call.force
    /\ result.ret.flags[1] /\ ~result.ret.flags[2]

\* C8: a call whose desired value is outside the setting's domain fails with
\* a validation error (ValueError, TypeError) and sends no write command, for
\* any force and any modem value; the modem's settings are unchanged.
C8_InvalidDesiredFailsValidation ==
    (Done /\ call.op \in Accessors /\ call.desired # PyNone /\ ~ValidDesired(call)
          /\ (QuerySent => QueryOk)) =>
        /\ result.exc \in {"ValueError", "TypeError"}
        /\ SetWrites = {}
        /\ modem = pre

\* C9: a call with a valid desired value equal to the value just read and
\* force false sends no write command and returns the read value.
C9_EqualDesiredNoWrite ==
    (Done /\ call.op \in Accessors /\ ~call.force /\ ValidDesired(call) /\ QueryOk
          /\ DesiredRet(call) = CurrentRet(call.op, pre)) =>
        /\ SetWrites = {}
        /\ Len(log) = 2
        /\ result.exc = ""
        /\ result.ret = CurrentRet(call.op, pre)
        /\ modem = pre

\* C9's case: the NMEA configuration asked for is the one the modem holds,
\* with a flag on.
C9_Witness ==
    /\ Done /\ call.op = "gnss_nmea_data_config" /\ ~call.force /\ ValidDesired(call)
    /\ QueryOk /\ DesiredRet(call) = CurrentRet(call.op, pre)
    /\ call.flags[1].b /\ call.desired.s = "port_lock"
    /\ result.exc = ""

\* The write command that sets the desired value of a call.
DesiredCmd(c) ==
    CASE c.op = "error_config" ->
            Cmd("AT+CMEE=", <<CHOOSE k \in 0..2 : ME_ERROR_MODE_MAP[k] = c.desired.s>>)
      [] c.op = "sms_format" -> Cmd("AT+CMGF=", <<IF DesiredRet(c).mode = "PUD" THEN 0 ELSE 1>>)
      [] c.op = "gnss_session" -> Cmd("AT$GPSP=", <<IF c.desired.b THEN 1 ELSE 0>>)
      [] c.op = "gnss_nmea_data_config" ->
            Cmd("AT$GPSNMUN=",
                <<CHOOSE k \in 0..3 : NMEA_MODE_MAP[k] = c.desired.s>>
                    \o [i \in 1..6 |-> IF c.flags[i].b THEN 1 ELSE 0])

\* C10: a call with a valid desired value and force true sends exactly one
\* write command, that of the desired value, also when the modem already
\* holds the desired value.
C10_ForceWritesOnce ==
    (Done /\ call.op \in Accessors /\ call.force /\ ValidDesired(call)
          /\ (QuerySent => QueryOk)) =>
        /\ Cardinality(SetWrites) = 1
        /\ \A i \in SetWrites : log[i].cmd = DesiredCmd(call)
        /\ Cardinality(Places("write_line")) = (IF QuerySent THEN 2 ELSE 1)

\* C10's case: force with the value the modem already holds; the write was
\* acknowledged.
C10_Witness ==
    /\ Done /\ call.op = "gnss_session" /\ call.force /\ ValidDesired(call)
    /\ QueryOk /\ DesiredRet(call) = CurrentRet(call.op, pre)
    /\ Cardinality(SetWrites) = 1
    /\ result.exc = "" /\ result.ret = DesiredRet(call)

\* The write of the setting was acknowledged: the line was written and the
\* read after it, the last of the call, matched its ready word.
WriteAcked(w) ==
    /\ log[w].out = "ok"
    /\ Len(log) = w + 1
    /\ log[w + 1].op = "read_until" /\ log[w + 1].out = "ready"

\* C11: when an accessor has issued its write command, the write is the last
\* command of the call (no re-read follows); if the write was acknowledged
\* with its ready word the accessor returns the caller's intended value, and
\* if it failed (error sentinel, timeout, write failure) the accessor fails
\* and returns no value.
C11_WriteTrustedOrFails ==
    (Done /\ call.op \in Accessors /\ SetWrites # {}) =>
        LET w == CHOOSE i \in SetWrites : TRUE
        IN  /\ SetWrites = {w}
            /\ \A j \in Places("write_line") : j <= w
            /\ Len(log) <= w + 1
            /\ IF WriteAcked(w)
               THEN result.exc = "" /\ result.ret = DesiredRet(call)
               ELSE result.exc # "" /\ result.ret = NoRet

\* C11's case: the modem refused the write with the error sentinel.
C11_Witness ==
    /\ Done /\ call.op = "error_config" /\ SetWrites = {3}
    /\ Len(log) = 4 /\ log[4].out = "error"
    /\ result.exc = "CommandExecutionException"

\* C12: in gnss_nmea_data_config the read after the write command awaits
\* CONNECT when the desired mode is port_lock and OK for the other modes;
\* the read after the query awaits OK.
C12_ConnectIffPortLock ==
    call.op = "gnss_nmea_data_config" =>
        \A i \in Places("read_until") :
            log[i].word = IF i - 1 \in SetWrites /\ call.desired = PyStr("port_lock")
                          THEN "CONNECT" ELSE "OK"

\* C12's case: port_lock was written and CONNECT was awaited and received.
C12_Witness ==
    /\ Done /\ call.op = "gnss_nmea_data_config" /\ call.desired = PyStr("port_lock")
    /\ SetWrites = {3} /\ Len(log) = 4
    /\ log[2].word = "OK" /\ log[4].word = "CONNECT" /\ log[4].out = "ready"
    /\ result.exc = ""

\* The outcome of an execute call as its arguments and its own transport
\* operations determine it: the exception with the command and error it
\* names, or the kind, error and data of the res returned.
Outcome(exc, exc_cmd, exc_error, has_res, error, data) ==
    [exc |-> exc, exc_cmd |-> exc_cmd, exc_error |-> exc_error, has_res |-> has_res,
     error |-> error, data |-> data]
OutcomeOf(c, l) ==
    LET reads == {i \in 1..Len(l) : l[i].op = "read_until"}
        last == l[CHOOSE i \in reads : \A j \in reads : j <= i]
    IN  IF l[1].out = "fail" THEN Outcome("WriteError", NoCmd, "", FALSE, "", NoData)
        ELSE IF reads = {}
             THEN IF c.raise_on_error THEN Outcome("TypeError", NoCmd, "", FALSE, "", NoData)
                  ELSE Outcome("", NoCmd, "", FALSE, "", NoData)
        ELSE IF last.out = "timeout" THEN Outcome("Timeout", NoCmd, "", FALSE, "", NoData)
        ELSE IF last.out = "error" /\ c.raise_on_error
             THEN Outcome("CommandExecutionException", l[1].cmd, last.error, FALSE, "", NoData)
        ELSE Outcome("", NoCmd, "", TRUE, last.error, last.data)
ObservedOutcome ==
    Outcome(result.exc, result.exc_cmd, result.exc_error, result.ret.res.t = "dict",
            result.ret.res.error, GetData(result.ret.res))

\* C18: within one execute call the command line is written once, before any
\* read; ready word i+1 is awaited only after the words before it were
\* matched without error; after the last ready word, an error or a timeout
\* the call reads and writes no more; and the outcome of the call is that
\* which its own arguments and transport operations determine.
C18_ProtocolMovesForward ==
    call.op = "execute" =>
        /\ \A i \in Places("write_line") : i = 1
        /\ \A k \in Places("read_until") :
              /\ log[1].op = "write_line" /\ log[1].out = "ok"
              /\ k - 1 \in 1..Len(call.ready_words)
              /\ log[k].word = call.ready_words[k - 1]
              /\ \A j \in 2..(k - 1) : log[j].op = "read_until" /\ log[j].out = "ready"
              /\ (log[k].out # "ready" \/ k - 1 = Len(call.ready_words)) =>
                    /\ ex.pc \notin {"write_line", "read_until"}
                    /\ \A j \in (k + 1)..Len(log) : log[j].op \in {"close", "sleep"}
        /\ Done => (Len(log) >= 1 /\ ObservedOutcome = OutcomeOf(call, log))

\* C18's case: two ready words awaited in order and both matched.
C18_Witness ==
    /\ Done /\ call.op = "execute" /\ call.ready_words = <<"OK", "CONNECT">>
    /\ Places("write_line") = {1} /\ Places("read_until") = {2, 3}
    /\ log[2].word = "OK" /\ log[3].word = "CONNECT" /\ log[3].out = "ready"
    /\ result.exc = ""

\* The decoder's query was answered with the ready word; the data answered.
Answered == Len(log) >= 2 /\ log[2].op = "read_until" /\ log[2].out = "ready"
AnswerData == log[2].data

\* The groups of the response the decoder read.
GroupsRead == {log[i].word : i \in Places("group")}

\* C14: gnss_location never returns a location when the fix code of the
\* response is 0 (invalid) or 1 (none): for every response of the expected
\* shape with such a fix code, whatever its other fields hold, the call
\* fails with NoFixException, returns nothing and has read no group but fix.
C14_NoFixNeverALocation ==
    (Done /\ call.op = "gnss_location" /\ Answered) =>
        /\ (GpsAcpMatch(AnswerData) /\ AnswerData.fields[6] \in {<<"0">>, <<"1">>}) =>
              /\ result.exc = "NoFixException"
              /\ result.ret = NoRet
              /\ GroupsRead = {"fix"}
              /\ Cardinality(Places("group")) = 1
        /\ result.ret.t = "loc" =>
              /\ GpsAcpMatch(AnswerData)
              /\ AnswerData.fields[6] \in {<<"2">>, <<"3">>}
              /\ result.ret.loc.fix \in {"2D", "3D"}

\* C14's case: the response without a fix, all other fields empty.
C14_Witness ==
    /\ Done /\ call.op = "gnss_location" /\ Answered
    /\ AnswerData.fields = NoFixReport
    /\ result.exc = "NoFixException" /\ GroupsRead = {"fix"}

\* The data answered has the shape the decoder expects: for imei the IMEI
\* line, for gnss_location the twelve fields with, under a 2D or 3D fix,
\* none of them empty.
ExpectedShape ==
    IF call.op = "imei" THEN Matches(AnswerData, "+GSN: ", <<{"356938035643809"}>>)
    ELSE /\ GpsAcpMatch(AnswerData)
         /\ AnswerData.fields[6] \in {<<"2">>, <<"3">>} =>
               \A name \in {AcpFields[i] : i \in 1..12} : Group(AnswerData, name) # <<>>

\* C15: a response whose data is absent or not of the expected shape makes
\* the decoder fail with InvalidResponseException and return nothing; so
\* does a gnss_location response with a 2D or 3D fix and an empty field.
C15_BadShapeIsInvalidResponse ==
    (Done /\ call.op \in {"imei", "gnss_location"} /\ Answered /\ ~ExpectedShape) =>
        /\ result.exc = "InvalidResponseException"
        /\ result.ret = NoRet

\* sms_list has ended: result holds its outcome.
SmsListDone == outer.op = "sms_list" /\ outer.pc = "done"

\* The place of the log where the list query was written (the try block of
\* sms_list was entered), 0 if it was not; the read after it.
ListPlaces == {i \in Places("write_line") : log[i].cmd = ListCmd}
ListPlace == IF ListPlaces = {} THEN 0 ELSE CHOOSE i \in ListPlaces : TRUE
ListStarted == ListPlace # 0
ListAnswered ==
    /\ ListStarted /\ log[ListPlace].out = "ok"
    /\ Len(log) > ListPlace /\ log[ListPlace + 1].out = "ready"
ListData == log[ListPlace + 1].data

\* sms_list changed the format mode before listing: a set command was
\* written before the list query and acknowledged.
ModeChanged ==
    \E w \in SetWrites :
        w < ListPlace /\ log[w].out = "ok" /\ log[w + 1].op = "read_until" /\ log[w + 1].out = "ready"

\* The restore: the format query written after the list query; its commands
\* succeeded when the query was answered with the format mode and the set
\* command, if one was needed, was acknowledged.
RestorePlaces ==
    {i \in Places("write_line") : i > ListPlace /\ log[i].cmd = QueryOf("sms_format")}
RestorePlace == CHOOSE i \in RestorePlaces : TRUE
RestoreAttempted == ListStarted /\ RestorePlaces # {}
RestoreSucceeded ==
    /\ RestoreAttempted
    /\ LET r == RestorePlace
       IN  /\ log[r].out = "ok"
           /\ Len(log) >= r + 1 /\ log[r + 1].out = "ready"
           /\ Matches(log[r + 1].data, "+CMGF: ", <<{"0", "1"}>>)
           /\ \/ Len(log) = r + 1
              \/ /\ Len(log) = r + 3
                 /\ log[r + 2].op = "write_line" /\ log[r + 2].out = "ok"
                 /\ log[r + 3].op = "read_until" /\ log[r + 3].out = "ready"

\* C13: whenever sms_list changed the format mode in order to list, then
\* however the listing ended (listed, list query failed, a message failed
\* to decode) the restore of the original format mode was attempted, and if
\* the commands of the restore succeeded the modem's format mode after the
\* call is the mode read at the start of the call.
C13_FormatModeRestored ==
    (SmsListDone /\ ListStarted /\ ModeChanged) =>
        /\ RestoreAttempted
        /\ RestoreSucceeded =>
              /\ modem.cmgf = IntOf(log[2].data.fields[1])
              /\ modem.cmgf = pre.cmgf

\* C13's case: the mode was changed, the list query timed out, and the
\* restore put the original mode back.
C13_Witness ==
    /\ SmsListDone /\ ListStarted /\ ModeChanged
    /\ result.exc = "Timeout"
    /\ RestoreSucceeded /\ Len(log) = RestorePlace + 3
    /\ modem.cmgf = pre.cmgf

\* The seconds of the datetime an isoformat text YYYY-MM-DDTHH:MM:SS names.
IsoSeconds(t) ==
    DaysFromCivil(IntOfText(SubSeq(t, 1, 4)), IntOfText(SubSeq(t, 6, 7)),
                  IntOfText(SubSeq(t, 9, 10))) * 86400
        + IntOfText(SubSeq(t, 12, 13)) * 3600 + IntOfText(SubSeq(t, 15, 16)) * 60
        + IntOfText(SubSeq(t, 18, 19))

\* The listing is of the documented shape but for the offset signs: pairs of
\* a meta line of six fields and a data line, the dates and times real.
MetaPlaces(lines) == {i \in 1..Len(lines) : i % 2 = 1}
LocalSeconds(meta) == Strptime(meta.date, SubSeq(meta.time, 1, Len(meta.time) - 3))
OffsetOf(meta) == IntOfText(SubSeq(meta.time, Len(meta.time) - 1, Len(meta.time)))
SignOf(meta) == meta.time[Len(meta.time) - 2]
Listable(lines) ==
    /\ Len(lines) % 2 = 0
    /\ \A i \in MetaPlaces(lines) :
          /\ lines[i].fields = 6 /\ Len(lines[i].time) = 11
          /\ AllDigits(lines[i].index) /\ Len(lines[i].index) >= 1
          /\ LocalSeconds(lines[i]) # -1

\* C16: in sms_list the UTC instant of a message is its local timestamp
\* less 15 x offset minutes when the offset sign is "+" and plus 15 x offset
\* minutes when it is "-" (21/11/16 14:10:00+04 gives 2021-11-16T13:10:00);
\* with any other sign in the listing the call fails and returns no list.
C16_UtcFromOffset ==
    (SmsListDone /\ ListAnswered /\ ListData.tag = "+CMGL: " /\ Listable(ListData.fields)) =>
        LET lines == ListData.fields
        IN  IF \A i \in MetaPlaces(lines) : SignOf(lines[i]) \in {"+", "-"}
            THEN /\ result.exc = ""
                 /\ Len(result.ret.values) = Len(lines) \div 2
                 /\ \A k \in 1..Len(result.ret.values) :
                       LET meta == lines[2 * k - 1]
                           utc == IsoSeconds(result.ret.values[k].timestamp)
                       IN  /\ Len(result.ret.values[k].timestamp) = 19
                           /\ SignOf(meta) = "+" =>
                                 utc = LocalSeconds(meta) - 15 * 60 * OffsetOf(meta)
                           /\ SignOf(meta) = "-" =>
                                 utc = LocalSeconds(meta) + 15 * 60 * OffsetOf(meta)
                           /\ (meta.date = <<"2", "1", "/", "1", "1", "/", "1", "6">> /\ meta.time = <<"1", "4", ":", "1", "0", ":", "0", "0", "+", "0", "4">>) =>
                                 result.ret.values[k].timestamp = <<"2", "0", "2", "1", "-", "1", "1", "-", "1", "6", "T", "1", "3", ":", "1", "0", ":", "0", "0">>
            ELSE /\ result.exc = "Exception"
                 /\ result.ret = NoRet

\* C16's case: the message of the example was listed.
C16_Witness ==
    /\ SmsListDone /\ ListAnswered /\ ListData.tag = "+CMGL: "
    /\ ListData.fields = ExampleMessage
    /\ result.exc = ""
    /\ result.ret.values[1].timestamp = <<"2", "0", "2", "1", "-", "1", "1", "-", "1", "6", "T", "1", "3", ":", "1", "0", ":", "0", "0">>

\* The outcome of the try block of sms_list as the list query's own
\* operations determine it.
ListingOutcome ==
    IF log[ListPlace].out = "fail" THEN Result("WriteError", NoCmd, "", NoRet)
    ELSE LET read == log[ListPlace + 1]
         IN  IF read.out = "timeout" THEN Result("Timeout", NoCmd, "", NoRet)
             ELSE IF read.out = "error"
                  THEN Result("CommandExecutionException", ListCmd, read.error, NoRet)
             ELSE sms_list_decode(IF read.data.tag = "" THEN EmptyRes ELSE DataRes(read.data))

\* C19: a failure of the format-mode restore never changes what the caller
\* of sms_list observes: the message list when the listing succeeded, the
\* listing's own exception when it failed.
C19_RestoreFailureHidden ==
    (SmsListDone /\ ListStarted) => result = ListingOutcome

\* C19's case: the messages were listed and the restore then failed.
C19_Witness ==
    /\ SmsListDone /\ ListAnswered /\ ModeChanged
    /\ RestoreAttempted /\ ~RestoreSucceeded
    /\ result.exc = "" /\ Len(result.ret.values) = 2

\* The transport did what a stub that echoes the last written values does:
\* every line was written, every read matched its ready word, and every
\* query was answered with the configuration held.
StubEchoes ==
    /\ \A i \in Places("write_line") : log[i].out = "ok"
    /\ \A i \in Places("read_until") :
          /\ log[i].out = "ready"
          /\ log[i - 1].cmd = QueryOf("gnss_nmea_data_config") => log[i].data.tag = "$GPSNMUN: "

\* C17: for every mode and every combination of the six flags, setting the
\* NMEA configuration and reading it back against a transport that echoes
\* the last written values returns the mode and flags that were set; a
\* flag written as 0 is read back as false.
C17_NmeaRoundTrip ==
    (outer.op = "set_then_get" /\ outer.pc = "done" /\ StubEchoes) =>
        /\ result.exc = ""
        /\ result.ret = DesiredRet(outer.target)
        /\ \A i \in 1..6 : result.ret.flags[i] = outer.target.flags[i].b
        /\ modem.nmun_flags = [i \in 1..6 |-> IF outer.target.flags[i].b THEN 1 ELSE 0]

\* C17's case: port_lock with some flags on and some off was written and
\* read back.
C17_Witness ==
    /\ outer.op = "set_then_get" /\ outer.pc = "done" /\ StubEchoes
    /\ outer.target.desired = PyStr("port_lock")
    /\ outer.target.flags[1].b /\ ~outer.target.flags[2].b /\ outer.target.flags[6].b
    /\ SetWrites # {}
    /\ result.exc = "" /\ result.ret.flags[1] /\ ~result.ret.flags[2]

\* The places of the log where an AT command is written, where the escape
\* sequence is written and where its acknowledgment is awaited.
AtPlaces == {i \in 1..Len(log) : log[i].op = "write_line"}
EscapePlaces == {i \in 1..Len(log) : log[i].op = "write" /\ log[i].cmd = EscapeCmd}
EscapeWaitPlaces == {i \in 1..Len(log) : log[i].op = "read_until" /\ log[i].word = "NO CARRIER"}
CommandsOf(op) ==
    {i \in AtPlaces : log[i].cmd.name \in
        (IF op = "error_config" THEN {"AT+CMEE?", "AT+CMEE="} ELSE {"AT$GPSP?", "AT$GPSP="})}
SetPlaces(name) == {i \in AtPlaces : log[i].cmd.name = name /\ log[i].out = "ok"}

\* The value the modem was read to hold before the set command at place i:
\* the data of the one answer to the query before it.
ReadBefore(i) ==
    LET reads == {j \in 1..(i - 1) : log[j].op = "read_until" /\ log[j].word = "OK"}
    IN  log[CHOOSE j \in reads : \A k \in reads : k <= j].data.fields[1]

\* open ran to its end and returned.
Opened == outer.op = "open" /\ outer.pc = "done" /\ result.exc = ""

\* C20: bring-up at open follows a fixed order.  The transport is opened
\* before anything else; the escape sequence is sent, once and next, exactly
\* when perform_initial_nmea_escape is set, and its acknowledgment is awaited
\* before any AT command is written; error_config commands are written only
\* if error_config is in the settings, gnss_session commands only if
\* gnss_session is, and none of gnss_session precedes one of error_config;
\* when open returns, each setting present was queried; and a setting is
\* written only when the value read from the modem differs from the
\* configured one.
C20_BringUpOrder ==
    (outer.op = "open" /\ outer.pc # "escape") =>
        LET settings == outer.settings
        IN  /\ log[1] = OpenEv("ok")
            /\ \A i \in 2..Len(log) : log[i].op # "open"
            /\ IF settings.perform_initial_nmea_escape
               THEN /\ EscapePlaces = {2}
                    /\ EscapeWaitPlaces \subseteq {3}
                    /\ AtPlaces # {} =>
                          /\ EscapeWaitPlaces = {3}
                          /\ log[2].out = "ok" /\ log[3].out # "timeout"
                          /\ \A i \in AtPlaces : i > 3
               ELSE EscapePlaces = {} /\ EscapeWaitPlaces = {}
            /\ CommandsOf("error_config") # {} => settings.has_error_config
            /\ CommandsOf("gnss_session") # {} => settings.has_gnss_session
            /\ \A i \in CommandsOf("gnss_session"), j \in CommandsOf("error_config") : j < i
            /\ Opened =>
                  /\ settings.has_error_config => CommandsOf("error_config") # {}
                  /\ settings.has_gnss_session => CommandsOf("gnss_session") # {}
            /\ \A i \in SetPlaces("AT+CMEE=") :
                  /\ settings.error_config.t = "str"
                  /\ ME_ERROR_MODE_MAP[IntOf(ReadBefore(i))] # settings.error_config.s
                  /\ log[i].cmd.args = <<dict_key_by_value(ME_ERROR_MODE_MAP, settings.error_config.s)>>
            /\ \A i \in SetPlaces("AT$GPSP=") :
                  /\ settings.gnss_session.t = "bool"
                  /\ Bool(IntOf(ReadBefore(i))) # settings.gnss_session.b
                  /\ log[i].cmd.args = <<FormatD(settings.gnss_session.b)>>

\* open returned after the escape sequence was acknowledged and both
\* settings were written, error_config before gnss_session.
C20_Witness ==
    /\ Opened
    /\ outer.settings.perform_initial_nmea_escape
    /\ EscapeWaitPlaces = {3} /\ log[3].out = "ready"
    /\ SetPlaces("AT+CMEE=") # {}
    /\ SetPlaces("AT$GPSP=") # {}
    /\ modem.cmee # pre.cmee /\ modem.gpsp # pre.gpsp

\* The execute calls of the operation so far: each begins with write_line
\* and writes one line.
ExecuteCalls == Cardinality(Places("write_line"))
DecoderDone == Done /\ outer = NoOuter /\ call.op \in {"imei", "gnss_location"}

AccessorReturned == Done /\ call.op \in {"error_config", "gnss_session"} /\ result.exc = ""

\* The value returned is the setting the modem holds.
ReturnedIsCurrent ==
    IF call.op = "error_config" THEN result.ret.mode = ME_ERROR_MODE_MAP[modem.cmee]
    ELSE result.ret.status = Bool(modem.gpsp)

\* C22: when every whole accessor call runs under one exclusive lock per
\* transport, the value an accessor returns is the modem's setting at the
\* moment it returns.  (Without the lock a race is reachable: C22_Witness.)
C22_SerializedReturnsCurrent == (peer.locking /\ AccessorReturned) => ReturnedIsCurrent

\* The race without the lock: gnss_session(status) read the status it was
\* asked to set and so wrote nothing, the second caller set the other status
\* before the call returned, and the call returned a status the modem does
\* not hold.
C22_Witness ==
    /\ ~peer.locking /\ AccessorReturned
    /\ call.op = "gnss_session" /\ call.desired # PyNone /\ ~call.force
    /\ Places("write_line") = {1}
    /\ result.ret.status = call.desired.b
    /\ ~ReturnedIsCurrent

\* The response with the hemisphere letters of lat and lon exchanged for
\* their opposites.
Opposite(letter) ==
    CASE letter = "N" -> "S" [] letter = "S" -> "N" [] letter = "E" -> "W" [] letter = "W" -> "E"
OtherHemisphere(data) ==
    [data EXCEPT !.fields[2][10] = Opposite(@), !.fields[3][11] = Opposite(@)]

\* degrees + minutes/60 of the digits of a coordinate whose first n digits
\* are the degrees: ddmm.mmmm or dddmm.mmmm, the letter after it not read.
DegreesOfDigits(t, n) ==
    Float(IntOfText(SubSeq(t, 1, n)) * 600000
              + IntOfText(SubSeq(t, n + 1, n + 2) \o SubSeq(t, n + 4, n + 7)),
          600000)

\* gnss_location returned a location for the response it was answered with.
LocationReturned == Done /\ call.op = "gnss_location" /\ Answered /\ result.exc = ""

\* C25: with decimal_degrees, the latitude and longitude returned are
\* degrees + minutes/60 of the digits alone (two digits of degrees for the
\* latitude, three for the longitude), never negative, and the response with
\* the opposite hemisphere letters decodes to the same two values; without
\* decimal_degrees the lat and lon groups are returned as they were matched,
\* the hemisphere letter included.
C25_HemisphereNotFolded ==
    LocationReturned =>
        LET lat == Group(AnswerData, "lat")
            lon == Group(AnswerData, "lon")
            loc == result.ret.loc
        IN  IF call.desired.b
            THEN /\ loc.lat.kind = "float" /\ loc.lon.kind = "float"
                 /\ loc.lat.deg = DegreesOfDigits(lat, 2)
                 /\ loc.lon.deg = DegreesOfDigits(lon, 3)
                 /\ loc.lat.deg.num >= 0 /\ loc.lon.deg.num >= 0
                 /\ LET other == gnss_location(DataRes(OtherHemisphere(AnswerData)), TRUE)
                    IN  /\ other.exc = ""
                        /\ other.ret.loc.lat = loc.lat
                        /\ other.ret.loc.lon = loc.lon
            ELSE /\ loc.lat = IF lat = <<>> THEN NoCoord
                              ELSE [NoCoord EXCEPT !.kind = "str", !.text = lat]
                 /\ loc.lon = IF lon = <<>> THEN NoCoord
                              ELSE [NoCoord EXCEPT !.kind = "str", !.text = lon]
                 /\ lat # <<>> => loc.lat.text[10] = AnswerData.fields[2][10]
                 /\ lon # <<>> => loc.lon.text[11] = AnswerData.fields[3][11]

\* A southern and western position decoded with decimal_degrees: 5702.1608S,
\* 00956.1064W gives 57 + 2.1608/60 and 9 + 56.1064/60, both positive.
C25_Witness ==
    /\ LocationReturned /\ call.desired.b
    /\ AnswerData.fields[2][10] = "S" /\ AnswerData.fields[3][11] = "W"
    /\ result.ret.loc.lat.deg = Float(57 * 600000 + 21608, 600000)
    /\ result.ret.loc.lon.deg = Float(9 * 600000 + 561064, 600000)

\* A handler of the crypto manager has ended: crypto.exc is the exception it
\* raised ("" when it returned crypto.ret).
QueryDone == crypto.handler = "query" /\ crypto.pc = "done"
GenerateDone == crypto.handler = "generate_key" /\ crypto.pc = "done"

\* The places of the log where the connection was acquired, where it was
\* released and where a method of it was called.
EnterPlaces == {i \in Places("enter") : log[i].out = "ok"}
ExitPlaces == Places("exit")
ConnCallPlaces(name) == {i \in Places("call") : log[i].word = name}

\* Every call of a method of the connection lies inside the one scope.
InsideScope ==
    \A i \in Places("call") :
        /\ \E e \in EnterPlaces : e < i
        /\ \A x \in ExitPlaces : i < x

\* C23: query_handler answers a name that is no command of the connection
\* with the error "Unsupported command" and "_type" the lower-cased name,
\* without raising, without acquiring the connection and without calling
\* anything on it; a command of the connection is called exactly once,
\* inside the scope, whenever the connection was acquired.
C23_UnsupportedIsAnError ==
    QueryDone =>
        IF crypto.cmd \notin ConnCommands
        THEN /\ crypto.exc = ""
             /\ crypto.ret.error = "Unsupported command"
             /\ crypto.ret.type \in {Lower(c) : c \in {q \in QueryCmds : AttrName(q) = crypto.cmd}}
             /\ log = <<>>
        ELSE /\ crypto.ret.error = ""
             /\ EnterPlaces # {} =>
                   /\ Cardinality(ConnCallPlaces(crypto.cmd)) = 1
                   /\ Places("call") = ConnCallPlaces(crypto.cmd)
                   /\ InsideScope
                   /\ Cardinality(ExitPlaces) = 1

\* C24: generate_key_handler never regenerates an existing key without
\* force: generate_key is called only after the existing key was read and
\* only if there was none or force was given; when the handler returns a
\* value, generate_key was called and the value is the key now held, which
\* differs from the key that existed before; and the connection, once
\* acquired, is released on every exit path, every call lying inside the
\* scope.
C24_NoRegenerationWithoutForce ==
    crypto.handler = "generate_key" =>
        /\ ConnCallPlaces("generate_key") # {} =>
              /\ Len(log) >= 2 /\ log[2] = ConnCallEv("_public_key", "ok")
              /\ \A i \in ConnCallPlaces("generate_key") : i = 3
              /\ crypto.existing_key = NoKey \/ crypto.force
        /\ InsideScope
        /\ crypto.entered <=> (EnterPlaces # {} /\ ExitPlaces = {})
        /\ GenerateDone =>
              /\ ~crypto.entered
              /\ EnterPlaces # {} => log[Len(log)] = ExitEv
              /\ crypto.exc = "" =>
                    /\ ConnCallPlaces("generate_key") # {}
                    /\ crypto.ret.value = crypto.keys[crypto.keyid]
                    /\ crypto.ret.value # crypto.existing_key
                    /\ crypto.ret.value # NoKey

\* A key exists and force is false: the handler read the key, raised
\* without calling generate_key, released the connection, and the key is
\* the one that existed.
C24_Witness ==
    /\ GenerateDone /\ ~crypto.force
    /\ crypto.existing_key # NoKey
    /\ crypto.exc = "Exception"
    /\ log = <<EnterEv("ok"), ConnCallEv("_public_key", "ok"), ExitEv>>
    /\ crypto.keys[crypto.keyid] = crypto.existing_key

====
